---- MODULE Spec2Model ----
(***************************************************************************)
(* A model of the record normalization pipeline of etl/etl.py              *)
(* (DataTransformer): duplicate removal, column normalization, the field   *)
(* validators, the schema projection and the transformation report.        *)
(*                                                                         *)
(* Cell values are tagged records: a Python str, None, an int or a float   *)
(* (floats are kept as an integer number of thousandths, or as one of the  *)
(* non-finite values).  Strings are TLA+ strings, read character by        *)
(* character with SubSeq.                                                  *)
(***************************************************************************)
EXTENDS Integers, Sequences, FiniteSets, TLC

(***************************************************************************)
(* Python values                                                           *)
(***************************************************************************)
None == [k |-> "none", s |-> "", n |-> 0]
PyStr(s) == [k |-> "str", s |-> s, n |-> 0]
PyInt(n) == [k |-> "int", s |-> "", n |-> n]
\* a finite float, n thousandths
PyFloat(n) == [k |-> "float", s |-> "", n |-> n]
\* float('inf'), float('-inf'), float('nan')
PosInf == [k |-> "float", s |-> "inf", n |-> 0]
NegInf == [k |-> "float", s |-> "-inf", n |-> 0]
NaN == [k |-> "float", s |-> "nan", n |-> 0]

IsStr(v) == v.k = "str"
IsFinite(v) == v.k = "float" /\ v.s = ""

\* Python truthiness: None, '', 0 and 0.0 are false, everything else
\* (float nan included) is true
Truthy(v) ==
    CASE v.k = "none" -> FALSE
      [] v.k = "str" -> v.s /= ""
      [] v.k = "int" -> v.n /= 0
      [] v.k = "float" -> ~(v.s = "" /\ v.n = 0)

\* Python ==  between a value and a str literal
EqStr(v, lit) == v.k = "str" /\ v.s = lit

(***************************************************************************)
(* str methods                                                             *)
(***************************************************************************)
Char(s, i) == SubSeq(s, i, i)

IsSpace(c) == c \in {" ", "\t", "\n", "\r"}

RECURSIVE LStrip(_)
LStrip(s) == IF Len(s) > 0 /\ IsSpace(Char(s, 1)) THEN LStrip(Tail(s)) ELSE s

RECURSIVE RStrip(_)
RStrip(s) ==
    IF Len(s) > 0 /\ IsSpace(Char(s, Len(s)))
    THEN RStrip(SubSeq(s, 1, Len(s) - 1))
    ELSE s

\* str.strip()
Strip(s) == RStrip(LStrip(s))

UpperLetters == "ABCDEFGHIJKLMNOPQRSTUVWXYZ"
LowerLetters == "abcdefghijklmnopqrstuvwxyz"

LowerChar(c) ==
    IF \E i \in 1..Len(UpperLetters) : Char(UpperLetters, i) = c
    THEN Char(LowerLetters, CHOOSE i \in 1..Len(UpperLetters) : Char(UpperLetters, i) = c)
    ELSE c

RECURSIVE Lower(_)
\* str.lower()
Lower(s) == IF s = "" THEN "" ELSE LowerChar(Char(s, 1)) \o Lower(Tail(s))

Digits == "0123456789"
IsDigit(c) == \E i \in 1..Len(Digits) : Char(Digits, i) = c
DigitVal(c) == (CHOOSE i \in 1..Len(Digits) : Char(Digits, i) = c) - 1
IsLetter(c) ==
    \E i \in 1..Len(UpperLetters) : Char(UpperLetters, i) = c \/ Char(LowerLetters, i) = c
\* the regular expression class \w
IsWord(c) == IsDigit(c) \/ IsLetter(c) \/ c = "_"

AllChars(s, P(_)) == \A i \in 1..Len(s) : P(Char(s, i))

(***************************************************************************)
(* float(), int() and round()                                              *)
(***************************************************************************)
RECURSIVE DigitsValue(_)
\* the number a string of decimal digits denotes
DigitsValue(s) ==
    IF s = "" THEN 0
    ELSE 10 * DigitsValue(SubSeq(s, 1, Len(s) - 1)) + DigitVal(Char(s, Len(s)))

\* position of the first "." of s, 0 when there is none
PointAt(s) ==
    IF \E i \in 1..Len(s) : Char(s, i) = "."
    THEN CHOOSE i \in 1..Len(s) :
            Char(s, i) = "." /\ \A j \in 1..(i - 1) : Char(s, j) /= "."
    ELSE 0

\* an unsigned decimal literal: digits, at most one point, at least one
\* digit.  Exponents and digit-group underscores are not in the alphabet of
\* the inputs below, and at most three fraction digits are.
IsDecimal(s) ==
    LET p == PointAt(s)
        ip == IF p = 0 THEN s ELSE SubSeq(s, 1, p - 1)
        fp == IF p = 0 THEN "" ELSE SubSeq(s, p + 1, Len(s))
    IN  /\ AllChars(ip, IsDigit)
        /\ AllChars(fp, IsDigit)
        /\ Len(ip) + Len(fp) > 0
        /\ Len(fp) <= 3

\* the value of an unsigned decimal literal, in thousandths
DecimalValue(s) ==
    LET p == PointAt(s)
        ip == IF p = 0 THEN s ELSE SubSeq(s, 1, p - 1)
        fp == IF p = 0 THEN "" ELSE SubSeq(s, p + 1, Len(s))
        pad == CASE Len(fp) = 0 -> 1000 [] Len(fp) = 1 -> 100
                 [] Len(fp) = 2 -> 10 [] OTHER -> 1
    IN  DigitsValue(ip) * 1000 + DigitsValue(fp) * pad

\* mutant of ParseFloat: text that is no number parses as 0.0
ParseFloat_unparsable_is_zero(text) ==
    LET t == Strip(text)
        neg == Len(t) > 0 /\ Char(t, 1) = "-"
        body == IF Len(t) > 0 /\ Char(t, 1) \in {"+", "-"} THEN Tail(t) ELSE t
    IN  CASE Lower(body) \in {"inf", "infinity"} ->
                [ok |-> TRUE, v |-> IF neg THEN NegInf ELSE PosInf]
          [] Lower(body) = "nan" -> [ok |-> TRUE, v |-> NaN]
          [] IsDecimal(body) ->
                [ok |-> TRUE,
                 v |-> PyFloat(IF neg THEN 0 - DecimalValue(body) ELSE DecimalValue(body))]
          [] OTHER -> [ok |-> TRUE, v |-> PyFloat(0)]

\* float(text): [ok |-> FALSE] stands for ValueError
ParseFloat(text) ==
    LET t == Strip(text)
        signed == Len(t) > 0 /\ Char(t, 1) \in {"+", "-"}
        neg == Len(t) > 0 /\ Char(t, 1) = "-"
        body == IF signed THEN Tail(t) ELSE t
        low == Lower(body)
    IN  CASE low \in {"inf", "infinity"} ->
                [ok |-> TRUE, v |-> IF neg THEN NegInf ELSE PosInf]
          [] low = "nan" -> [ok |-> TRUE, v |-> NaN]
          [] IsDecimal(body) ->
                [ok |-> TRUE,
                 v |-> PyFloat(IF neg THEN 0 - DecimalValue(body) ELSE DecimalValue(body))]
          [] OTHER -> [ok |-> FALSE, v |-> None]

\* float(x) for any value: a str is parsed, a number converted, None is a
\* TypeError ([ok |-> FALSE])
ToFloat(x) ==
    CASE x.k = "str" -> ParseFloat(x.s)
      [] x.k = "int" -> [ok |-> TRUE, v |-> PyFloat(x.n * 1000)]
      [] x.k = "float" -> [ok |-> TRUE, v |-> x]
      [] OTHER -> [ok |-> FALSE, v |-> None]

\* int(f) of a float f: truncation towards zero; exc is "ValueError" for nan
\* and "OverflowError" for an infinity
FloatToInt(f) ==
    CASE f.s = "nan" -> [exc |-> "ValueError", n |-> 0]
      [] f.s \in {"inf", "-inf"} -> [exc |-> "OverflowError", n |-> 0]
      [] OTHER ->
            [exc |-> "",
             n |-> IF f.n >= 0 THEN f.n \div 1000 ELSE 0 - ((0 - f.n) \div 1000)]

\* the thousandths d.dd5 in [0, 4] that are no binary fraction and whose
\* nearest double lies above the decimal, so that round(x, 2) rounds them up
TiesAbove ==
    {5, 25, 35, 55, 65, 85, 95, 115, 135, 165, 195, 225, 255, 265, 275, 315,
     325, 335, 385, 395, 405, 445, 455, 465, 505, 515, 525, 535, 545, 555,
     635, 645, 655, 665, 675, 685, 755, 765, 775, 785, 795, 805, 885, 895,
     905, 915, 925, 935, 1135, 1145, 1155, 1165, 1175, 1185, 1195, 1205,
     1215, 1225, 1235, 1245, 1385, 1395, 1405, 1415, 1425, 1435, 1445, 1455,
     1465, 1475, 1485, 1495, 1635, 1645, 1655, 1665, 1675, 1685, 1695, 1705,
     1715, 1725, 1735, 1745, 1885, 1895, 1905, 1915, 1925, 1935, 1945, 1955,
     1965, 1975, 1985, 1995, 2015, 2035, 2055, 2075, 2095, 2115, 2145, 2165,
     2185, 2205, 2225, 2245, 2265, 2285, 2305, 2325, 2345, 2365, 2395, 2415,
     2435, 2455, 2475, 2495, 2515, 2535, 2555, 2575, 2595, 2615, 2645, 2665,
     2685, 2705, 2725, 2745, 2765, 2785, 2805, 2825, 2845, 2865, 2895, 2915,
     2935, 2955, 2975, 2995, 3015, 3035, 3055, 3075, 3095, 3115, 3145, 3165,
     3185, 3205, 3225, 3245, 3265, 3285, 3305, 3325, 3345, 3365, 3395, 3415,
     3435, 3455, 3475, 3495, 3515, 3535, 3555, 3575, 3595, 3615, 3645, 3665,
     3685, 3705, 3725, 3745, 3765, 3785, 3805, 3825, 3845, 3865, 3895, 3915,
     3935, 3955, 3975, 3995}

\* round(f, 2) of a finite float 0 <= f <= 4 given in thousandths: Python
\* rounds the double exactly, half-to-even when the double is a tie
Round2(m) ==
    LET r == m % 10
        down == m - r
    IN  CASE r < 5 -> down
          [] r > 5 -> down + 10
          [] m % 125 = 0 -> IF (down \div 10) % 2 = 0 THEN down ELSE down + 10
          [] OTHER -> IF m \in TiesAbove THEN down + 10 ELSE down

RECURSIVE NatToStr(_)
NatToStr(n) ==
    IF n < 10 THEN Char(Digits, n + 1)
    ELSE NatToStr(n \div 10) \o Char(Digits, (n % 10) + 1)

\* str(n) of an int
IntToStr(n) == IF n < 0 THEN "-" \o NatToStr(0 - n) ELSE NatToStr(n)

\* str(f) of a float given in thousandths
FloatToStr(f) ==
    CASE f.s /= "" -> f.s
      [] OTHER ->
            LET a == IF f.n < 0 THEN 0 - f.n ELSE f.n
                fr == a % 1000
                frs == CASE fr % 100 = 0 -> NatToStr(fr \div 100)
                         [] fr % 10 = 0 ->
                                NatToStr(fr \div 100) \o NatToStr((fr \div 10) % 10)
                         [] OTHER ->
                                NatToStr(fr \div 100) \o NatToStr((fr \div 10) % 10)
                                    \o NatToStr(fr % 10)
            IN  (IF f.n < 0 THEN "-" ELSE "") \o NatToStr(a \div 1000) \o "." \o frs

(***************************************************************************)
(* Configuration tables (etl.py, module level)                             *)
(***************************************************************************)
DEPARTMENT_MAPPING ==
    ("cs" :> "Computer Science") @@ ("compsci" :> "Computer Science")
    @@ ("computer science" :> "Computer Science")
    @@ ("math" :> "Mathematics") @@ ("mathematics" :> "Mathematics")
    @@ ("physics" :> "Physics")
    @@ ("business" :> "Business Administration")
    @@ ("business administration" :> "Business Administration")
    @@ ("ee" :> "Electrical Engineering")
    @@ ("electrical engineering" :> "Electrical Engineering")

STATUS_MAPPING ==
    ("active" :> "active") @@ ("inactive" :> "inactive")
    @@ ("graduated" :> "graduated") @@ ("suspended" :> "suspended")

(***************************************************************************)
(* Field validators.  Each returns the value it returns in val, the        *)
(* entries it appends to self.validation_errors in errs and to             *)
(* self.transformation_log in log, and in exc the exception that escapes   *)
(* it ("" when it returns).                                                *)
(***************************************************************************)
Return(v) == [val |-> v, errs |-> <<>>, log |-> <<>>, exc |-> ""]
ReturnWithError(v, f, raw, msg) ==
    [val |-> v, errs |-> <<[field |-> f, value |-> raw, error |-> msg]>>,
     log |-> <<>>, exc |-> ""]
Raise(e) == [val |-> None, errs |-> <<>>, log |-> <<>>, exc |-> e]

\* the guard that opens every validator:
\*   not x or x == '' or x == 'nan'
IsBlank(x) == ~Truthy(x) \/ EqStr(x, "") \/ EqStr(x, "nan")

\* re.match(r'^[\w\.-]+@[\w\.-]+\.\w+$', s), for s without a line break
IsEmailChar(c) == IsWord(c) \/ c = "." \/ c = "-"
EmailMatches(s) ==
    \E a \in 2..Len(s) :
        /\ Char(s, a) = "@"
        /\ AllChars(SubSeq(s, 1, a - 1), IsEmailChar)
        /\ LET d == SubSeq(s, a + 1, Len(s))
           IN  \E p \in 2..(Len(d) - 1) :
                  /\ Char(d, p) = "."
                  /\ AllChars(SubSeq(d, 1, p - 1), IsEmailChar)
                  /\ AllChars(SubSeq(d, p + 1, Len(d)), IsWord)

\* mutant of _clean_email: the pattern is tested on the value as given
_clean_email_as_given(email) ==
    IF IsBlank(email) THEN Return(None)
    ELSE IF ~IsStr(email) THEN Raise("AttributeError")
    ELSE IF ~EmailMatches(email.s)
         THEN ReturnWithError(None, "email", email, "Invalid email format")
         ELSE Return(email)

_clean_email(email) ==
    IF IsBlank(email) THEN Return(None)
    ELSE IF ~IsStr(email) THEN Raise("AttributeError")
    ELSE LET e == Strip(Lower(email.s))
         IN  IF ~EmailMatches(e)
             THEN ReturnWithError(None, "email", PyStr(e), "Invalid email format")
             ELSE Return(PyStr(e))

\* mutant of _map_department: the alias is looked up without trimming
_map_department_untrimmed(dept) ==
    IF IsBlank(dept) THEN Return(None)
    ELSE IF ~IsStr(dept) THEN Raise("AttributeError")
    ELSE IF Lower(dept.s) \in DOMAIN DEPARTMENT_MAPPING
         THEN Return(PyStr(DEPARTMENT_MAPPING[Lower(dept.s)]))
         ELSE Return(dept)

_map_department(dept) ==
    IF IsBlank(dept) THEN Return(None)
    ELSE IF ~IsStr(dept) THEN Raise("AttributeError")
    ELSE LET dept_lower == Strip(Lower(dept.s))
         IN  IF dept_lower \in DOMAIN DEPARTMENT_MAPPING
             THEN LET mapped == DEPARTMENT_MAPPING[dept_lower]
                  IN  [val |-> PyStr(mapped), errs |-> <<>>,
                       log |-> IF mapped /= dept.s
                               THEN <<[action |-> "DEPARTMENT_NORMALIZED",
                                       original |-> dept,
                                       normalized |-> PyStr(mapped)]>>
                               ELSE <<>>,
                       exc |-> ""]
             ELSE Return(dept)

\* mutant of _map_status: an empty status is unset, as the other fields are
_map_status_blank_unset(status) ==
    IF IsBlank(status) THEN Return(None)
    ELSE IF ~IsStr(status) THEN Raise("AttributeError")
    ELSE LET status_lower == Strip(Lower(status.s))
         IN  IF status_lower \in DOMAIN STATUS_MAPPING
             THEN Return(PyStr(STATUS_MAPPING[status_lower]))
             ELSE Return(PyStr("active"))

\* mutant of _map_status: a status that is no key of the mapping is reported
_map_status_reports_unknown(status) ==
    IF IsBlank(status) THEN Return(PyStr("active"))
    ELSE IF ~IsStr(status) THEN Raise("AttributeError")
    ELSE LET status_lower == Strip(Lower(status.s))
         IN  IF status_lower \in DOMAIN STATUS_MAPPING
             THEN Return(PyStr(STATUS_MAPPING[status_lower]))
             ELSE ReturnWithError(PyStr("active"), "status", status, "Unknown status")

_map_status(status) ==
    IF IsBlank(status) THEN Return(PyStr("active"))
    ELSE IF ~IsStr(status) THEN Raise("AttributeError")
    ELSE LET status_lower == Strip(Lower(status.s))
         IN  IF status_lower \in DOMAIN STATUS_MAPPING
             THEN Return(PyStr(STATUS_MAPPING[status_lower]))
             ELSE Return(PyStr("active"))

\* mutant of _clean_year: the out-of-range year is reported but not clamped
_clean_year_unclamped(year) ==
    IF IsBlank(year) THEN Return(None)
    ELSE LET f == ToFloat(year)
         IN  IF ~f.ok THEN Return(None)
             ELSE LET i == FloatToInt(f.v)
                  IN  CASE i.exc = "ValueError" -> Return(None)
                        [] i.exc = "OverflowError" -> Raise("OverflowError")
                        [] 1 <= i.n /\ i.n <= 4 -> Return(PyInt(i.n))
                        [] OTHER ->
                              ReturnWithError(
                                  PyInt(i.n), "year_level", year,
                                  "Year " \o IntToStr(i.n) \o " out of range (1-4)")

_clean_year(year) ==
    IF IsBlank(year) THEN Return(None)
    ELSE LET f == ToFloat(year)
         IN  IF ~f.ok THEN Return(None)
             ELSE LET i == FloatToInt(f.v)
                  IN  CASE i.exc = "ValueError" -> Return(None)
                        [] i.exc = "OverflowError" -> Raise("OverflowError")
                        [] 1 <= i.n /\ i.n <= 4 -> Return(PyInt(i.n))
                        [] OTHER ->
                              ReturnWithError(
                                  PyInt(IF i.n < 1 THEN 1 ELSE 4), "year_level", year,
                                  "Year " \o IntToStr(i.n) \o " out of range (1-4)")

\* mutant of _clean_gpa: the out-of-range GPA is clamped as the year is
_clean_gpa_clamped(gpa) ==
    IF IsBlank(gpa) \/ EqStr(gpa, "##") THEN Return(None)
    ELSE LET f == ToFloat(gpa)
         IN  IF ~f.ok THEN Return(None)
             ELSE IF IsFinite(f.v) /\ 0 <= f.v.n /\ f.v.n <= 4000
             THEN Return(PyFloat(Round2(f.v.n)))
             ELSE ReturnWithError(
                      IF f.v = NaN THEN None
                      ELSE IF f.v = NegInf \/ (IsFinite(f.v) /\ f.v.n < 0)
                      THEN PyFloat(0) ELSE PyFloat(4000),
                      "gpa", gpa,
                      "GPA " \o FloatToStr(f.v) \o " out of range (0-4)")

_clean_gpa(gpa) ==
    IF IsBlank(gpa) \/ EqStr(gpa, "##") THEN Return(None)
    ELSE LET f == ToFloat(gpa)
         IN  IF ~f.ok THEN Return(None)
             ELSE IF IsFinite(f.v) /\ 0 <= f.v.n /\ f.v.n <= 4000
             THEN Return(PyFloat(Round2(f.v.n)))
             ELSE ReturnWithError(
                      None, "gpa", gpa,
                      "GPA " \o FloatToStr(f.v) \o " out of range (0-4)")

\* str(x)
ToStr(x) ==
    CASE x.k = "str" -> x.s
      [] x.k = "int" -> IntToStr(x.n)
      [] x.k = "float" -> FloatToStr(x)
      [] OTHER -> "None"

RECURSIVE OnlyDigits(_)
\* re.sub(r'\D', '', s)
OnlyDigits(s) ==
    IF s = "" THEN ""
    ELSE (IF IsDigit(Char(s, 1)) THEN Char(s, 1) ELSE "") \o OnlyDigits(Tail(s))

\* mutant of _clean_phone: a number of another length is returned as its
\* digits, not as it was given
_clean_phone_digits_only(phone) ==
    IF IsBlank(phone) THEN Return(None)
    ELSE LET digits == OnlyDigits(ToStr(phone))
         IN  CASE Len(digits) = 10 ->
                    Return(PyStr(SubSeq(digits, 1, 3) \o "-" \o SubSeq(digits, 4, 6)
                                    \o "-" \o SubSeq(digits, 7, 10)))
               [] Len(digits) = 7 ->
                    Return(PyStr(SubSeq(digits, 1, 3) \o "-" \o SubSeq(digits, 4, 7)))
               [] OTHER -> Return(PyStr(digits))

_clean_phone(phone) ==
    IF IsBlank(phone) THEN Return(None)
    ELSE LET digits == OnlyDigits(ToStr(phone))
         IN  CASE Len(digits) = 10 ->
                    Return(PyStr(SubSeq(digits, 1, 3) \o "-" \o SubSeq(digits, 4, 6)
                                    \o "-" \o SubSeq(digits, 7, 10)))
               [] Len(digits) = 7 ->
                    Return(PyStr(SubSeq(digits, 1, 3) \o "-" \o SubSeq(digits, 4, 7)))
               [] OTHER -> Return(phone)

(***************************************************************************)
(* datetime.strptime and strftime for the five formats of _clean_date      *)
(***************************************************************************)
\* strptime's %m: 1[0-2] | 0[1-9] | [1-9]
IsMonthToken(s) ==
    \/ Len(s) = 2 /\ Char(s, 1) = "1" /\ Char(s, 2) \in {"0", "1", "2"}
    \/ Len(s) = 2 /\ Char(s, 1) = "0" /\ IsDigit(Char(s, 2)) /\ Char(s, 2) /= "0"
    \/ Len(s) = 1 /\ IsDigit(s) /\ s /= "0"

\* strptime's %d: 3[01] | [12]\d | 0[1-9] | [1-9] | " "[1-9]
IsDayToken(s) ==
    \/ Len(s) = 2 /\ Char(s, 1) = "3" /\ Char(s, 2) \in {"0", "1"}
    \/ Len(s) = 2 /\ Char(s, 1) \in {"1", "2"} /\ IsDigit(Char(s, 2))
    \/ Len(s) = 2 /\ Char(s, 1) \in {"0", " "} /\ IsDigit(Char(s, 2)) /\ Char(s, 2) /= "0"
    \/ Len(s) = 1 /\ IsDigit(s) /\ s /= "0"

\* strptime's %Y: \d\d\d\d
IsYearToken(s) == Len(s) = 4 /\ AllChars(s, IsDigit)

IsLeap(y) == y % 4 = 0 /\ (y % 100 /= 0 \/ y % 400 = 0)

DaysInMonth(y, m) ==
    CASE m \in {4, 6, 9, 11} -> 30
      [] m = 2 -> IF IsLeap(y) THEN 29 ELSE 28
      [] OTHER -> 31

\* the positions of the separator sep in s, in increasing order
SepPositions(s, sep) ==
    LET P == {i \in 1..Len(s) : Char(s, i) = sep}
        RECURSIVE Sorted(_)
        Sorted(Q) ==
            IF Q = {} THEN <<>>
            ELSE LET lo == CHOOSE i \in Q : \A j \in Q : i <= j
                 IN  <<lo>> \o Sorted(Q \ {lo})
    IN  Sorted(P)

\* strptime(s, fmt) for a format of three fields in the given order
\* ("Y", "m", "d") joined by sep: [ok |-> FALSE] stands for ValueError
Strptime(s, order, sep) ==
    LET pos == SepPositions(s, sep)
        tok == IF Len(pos) = 2
               THEN <<SubSeq(s, 1, pos[1] - 1), SubSeq(s, pos[1] + 1, pos[2] - 1),
                      SubSeq(s, pos[2] + 1, Len(s))>>
               ELSE <<"", "", "">>
        at(f) == tok[CHOOSE i \in 1..3 : order[i] = f]
        y == DigitsValue(at("Y"))
        m == DigitsValue(at("m"))
        d == DigitsValue(OnlyDigits(at("d")))
    IN  IF /\ Len(pos) = 2
           /\ IsYearToken(at("Y")) /\ IsMonthToken(at("m")) /\ IsDayToken(at("d"))
           /\ y >= 1 /\ d <= DaysInMonth(y, m)
        THEN [ok |-> TRUE, y |-> y, m |-> m, d |-> d]
        ELSE [ok |-> FALSE, y |-> 0, m |-> 0, d |-> 0]

\* an integer below 100 as two digits
TwoDigits(n) == NatToStr(n \div 10) \o NatToStr(n % 10)

\* parsed.strftime('%Y-%m-%d'); the C library's %Y does not pad the year
Strftime(p) == NatToStr(p.y) \o "-" \o TwoDigits(p.m) \o "-" \o TwoDigits(p.d)

\* date_formats, in the order the loop tries them
date_formats ==
    << [order |-> <<"Y", "m", "d">>, sep |-> "-"],
       [order |-> <<"m", "d", "Y">>, sep |-> "/"],
       [order |-> <<"m", "d", "Y">>, sep |-> "-"],
       [order |-> <<"d", "m", "Y">>, sep |-> "/"],
       [order |-> <<"d", "m", "Y">>, sep |-> "-"] >>

_clean_date(date_str) ==
    IF IsBlank(date_str) THEN Return(None)
    ELSE IF ~IsStr(date_str) THEN Raise("AttributeError")
    ELSE LET s == Strip(date_str.s)
             parses(i) == Strptime(s, date_formats[i].order, date_formats[i].sep)
             hits == {i \in 1..Len(date_formats) : parses(i).ok}
         IN  IF hits /= {}
             THEN Return(PyStr(Strftime(parses(CHOOSE i \in hits : \A j \in hits : i <= j))))
             ELSE ReturnWithError(None, "date_of_birth", date_str, "Unable to parse date")

(***************************************************************************)
(* DataFrames.  A frame is its column labels and its rows in order; a row  *)
(* carries its index label (which drop_duplicates preserves) and one cell  *)
(* per column.  The cells of the frames handed to transform are str or     *)
(* None, so every column has dtype object.                                 *)
(***************************************************************************)
EmptyFrame == [columns |-> <<>>, rows |-> <<>>]

\* a sequence given as a function, held as an explicit tuple
AsTuple(f) == f \o <<>>

HasColumn(df, name) == \E j \in 1..Len(df.columns) : df.columns[j] = name
ColumnAt(df, name) == CHOOSE j \in 1..Len(df.columns) : df.columns[j] = name
Cell(df, i, name) == df.rows[i].cells[ColumnAt(df, name)]

\* mutant of IsDuplicate: keep='last'
IsDuplicate_keep_last(df, i) ==
    \E h \in (i + 1)..Len(df.rows) :
        df.rows[h].cells[ColumnAt(df, "Student ID")]
            = df.rows[i].cells[ColumnAt(df, "Student ID")]

\* df.duplicated(subset=['Student ID'], keep='first'), for row i
IsDuplicate(df, i) ==
    \E h \in 1..(i - 1) : Cell(df, h, "Student ID") = Cell(df, i, "Student ID")

RECURSIVE DuplicateEvents(_, _)
\* the entries the loop over duplicates.iterrows() appends, from row i on
DuplicateEvents(df, i) ==
    IF i > Len(df.rows) THEN <<>>
    ELSE (IF IsDuplicate(df, i)
          THEN <<[action |-> "DUPLICATE_REMOVED",
                  student_id |-> Cell(df, i, "Student ID"),
                  reason |-> "Duplicate Student ID"]>>
          ELSE <<>>) \o DuplicateEvents(df, i + 1)

RECURSIVE KeepFirst(_, _)
\* df.drop_duplicates(subset=['Student ID'], keep='first'), from row i on
KeepFirst(df, i) ==
    IF i > Len(df.rows) THEN <<>>
    ELSE (IF IsDuplicate(df, i) THEN <<>> ELSE <<df.rows[i]>>) \o KeepFirst(df, i + 1)

RECURSIVE DistinctRows(_, _)
DistinctRows(df, i) ==
    IF i > Len(df.rows) THEN <<>>
    ELSE (IF \E h \in 1..(i - 1) : df.rows[h].cells = df.rows[i].cells
          THEN <<>> ELSE <<df.rows[i]>>) \o DistinctRows(df, i + 1)

\* mutant of _remove_duplicates: without the identifier column, whole rows
\* are compared (drop_duplicates() with no subset)
_remove_duplicates_whole_rows(df) ==
    IF HasColumn(df, "Student ID")
    THEN [df |-> [columns |-> df.columns, rows |-> KeepFirst(df, 1)],
          log |-> DuplicateEvents(df, 1)]
    ELSE [df |-> [columns |-> df.columns, rows |-> DistinctRows(df, 1)], log |-> <<>>]

\* mutant of _remove_duplicates: the logging loop stops after its first entry
_remove_duplicates_logs_first_only(df) ==
    IF HasColumn(df, "Student ID")
    THEN [df |-> [columns |-> df.columns, rows |-> KeepFirst(df, 1)],
          log |-> IF DuplicateEvents(df, 1) = <<>> THEN <<>>
                  ELSE <<Head(DuplicateEvents(df, 1))>>]
    ELSE [df |-> df, log |-> <<>>]

\* returns the frame and the entries appended to self.transformation_log
_remove_duplicates(df) ==
    IF HasColumn(df, "Student ID")
    THEN [df |-> [columns |-> df.columns, rows |-> KeepFirst(df, 1)],
          log |-> DuplicateEvents(df, 1)]
    ELSE [df |-> df, log |-> <<>>]

column_mapping ==
    ("Student ID" :> "student_id") @@ ("Email" :> "email")
    @@ ("First Name" :> "first_name") @@ ("Last Name" :> "last_name")
    @@ ("Year" :> "year_level") @@ ("Department" :> "department")
    @@ ("Status" :> "status") @@ ("Phone" :> "phone")
    @@ ("DOB" :> "date_of_birth") @@ ("GPA" :> "gpa")

\* Series.astype(str).str.strip() on one cell: str(None) is 'None'
StripCell(v) == PyStr(Strip(ToStr(v)))

_normalize_columns(df) ==
    [columns |-> AsTuple([j \in 1..Len(df.columns) |->
                    IF df.columns[j] \in DOMAIN column_mapping
                    THEN column_mapping[df.columns[j]]
                    ELSE df.columns[j]]),
     rows |-> AsTuple([i \in 1..Len(df.rows) |->
                 [idx |-> df.rows[i].idx,
                  cells |-> AsTuple([j \in 1..Len(df.columns) |->
                                       StripCell(df.rows[i].cells[j])])]])]

\* the columns _validate_and_clean cleans, in its order
validated_columns ==
    <<"email", "department", "status", "year_level", "phone", "date_of_birth", "gpa">>

Validate(col, v) ==
    CASE col = "email" -> _clean_email(v)
      [] col = "department" -> _map_department(v)
      [] col = "status" -> _map_status(v)
      [] col = "year_level" -> _clean_year(v)
      [] col = "phone" -> _clean_phone(v)
      [] col = "date_of_birth" -> _clean_date(v)
      [] col = "gpa" -> _clean_gpa(v)

RECURSIVE Flatten(_)
\* the concatenation of a sequence of sequences
Flatten(ss) == IF ss = <<>> THEN <<>> ELSE Head(ss) \o Flatten(Tail(ss))

\* the first position of a sequence of results at which an exception
\* escapes, one past its end when none does
FirstRaise(rs) ==
    IF \E i \in 1..Len(rs) : rs[i].exc /= ""
    THEN CHOOSE i \in 1..Len(rs) : rs[i].exc /= "" /\ \A h \in 1..(i - 1) : rs[h].exc = ""
    ELSE Len(rs) + 1

\* what was appended and raised by the results before and at the first
\* exception
Collected(rs) ==
    LET k == FirstRaise(rs)
        upto == IF k > Len(rs) THEN Len(rs) ELSE k
    IN  [errs |-> Flatten(AsTuple([i \in 1..upto |-> rs[i].errs])),
         log |-> Flatten(AsTuple([i \in 1..upto |-> rs[i].log])),
         exc |-> IF k > Len(rs) THEN "" ELSE rs[k].exc]

\* the value of df[col].apply(validator), given the results rs of the calls
\* in row order and what they collected
ColumnOutcome(rs, c) ==
    [vals |-> AsTuple([i \in 1..Len(rs) |-> rs[i].val]),
     errs |-> c.errs, log |-> c.log, exc |-> c.exc]

ColumnResults(rs) == ColumnOutcome(rs, Collected(rs))

\* df[col].apply(validator): the new cells of the column, what the calls
\* appended in row order, and the exception that ended the loop, if any
ApplyColumn(df, col) ==
    ColumnResults(AsTuple([i \in 1..Len(df.rows) |-> Validate(col, Cell(df, i, col))]))

\* the frame with the columns present replaced by their cleaned cells rs,
\* and what cleaning them collected
CleanedFrame(df, present, rs, all) ==
    LET cleaned(j) == \E c \in 1..Len(present) : present[c] = df.columns[j]
        result(j) == rs[CHOOSE c \in 1..Len(present) : present[c] = df.columns[j]]
    IN  [df |-> [columns |-> df.columns,
                 rows |-> AsTuple([i \in 1..Len(df.rows) |->
                             [idx |-> df.rows[i].idx,
                              cells |-> AsTuple([j \in 1..Len(df.columns) |->
                                           IF cleaned(j) THEN result(j).vals[i]
                                           ELSE df.rows[i].cells[j]])]])],
         errs |-> all.errs, log |-> all.log, exc |-> all.exc]

CleanColumnResults(df, present, rs) == CleanedFrame(df, present, rs, Collected(rs))

CleanColumns(df, present) ==
    CleanColumnResults(
        df, present, AsTuple([c \in 1..Len(present) |-> ApplyColumn(df, present[c])]))

\* each column is cleaned from its own normalized cells, in the order of
\* validated_columns; an exception ends the method at that column
_validate_and_clean(df) ==
    CleanColumns(df, SelectSeq(validated_columns, LAMBDA c : HasColumn(df, c)))

schema_columns ==
    <<"student_id", "email", "first_name", "last_name", "year_level", "department",
      "status", "phone", "date_of_birth">>

\* mutant of _map_to_schema: every column is kept
_map_to_schema_keeps_all(df) == df

_map_to_schema(df) ==
    LET available_columns == SelectSeq(schema_columns, LAMBDA c : HasColumn(df, c))
    IN  [columns |-> available_columns,
         rows |-> AsTuple([i \in 1..Len(df.rows) |->
                     [idx |-> df.rows[i].idx,
                      cells |-> AsTuple([j \in 1..Len(available_columns) |->
                                   Cell(df, i, available_columns[j])])]])]

\* a report holds its two lists by reference: the entry names the list
\* object, and the entries read through it are those the object holds now
NoReport ==
    [original_count |-> 0, final_count |-> 0, duplicates_removed |-> 0,
     validation_errors |-> "", transformations |-> ""]

\* mutant of TransformReturns: final_count taken before the rows were dropped
TransformReturns_final_is_original(original_count, s1, s3, s4) ==
    [exc |-> "", df |-> s4,
     report |-> [original_count |-> original_count,
                 final_count |-> original_count,
                 duplicates_removed |-> original_count - Len(s4.rows),
                 validation_errors |-> "self.validation_errors",
                 transformations |-> "self.transformation_log"],
     errs |-> s3.errs, log |-> s1.log \o s3.log]

\* what transform returns: the projected frame s4 and the report
TransformReturns(original_count, s1, s3, s4) ==
    [exc |-> "", df |-> s4,
     report |-> [original_count |-> original_count,
                 final_count |-> Len(s4.rows),
                 duplicates_removed |-> original_count - Len(s4.rows),
                 validation_errors |-> "self.validation_errors",
                 transformations |-> "self.transformation_log"],
     errs |-> s3.errs, log |-> s1.log \o s3.log]

\* steps 3 and 4 of transform, s3 being the result of _validate_and_clean
TransformCleaned(original_count, s1, s3) ==
    IF s3.exc /= ""
    THEN [exc |-> s3.exc, df |-> EmptyFrame, report |-> NoReport,
          errs |-> s3.errs, log |-> s1.log \o s3.log]
    ELSE TransformReturns(original_count, s1, s3, _map_to_schema(s3.df))

\* steps 2 and 3 of transform, s1 being the result of _remove_duplicates
TransformDeduplicated(original_count, s1) ==
    TransformCleaned(original_count, s1, _validate_and_clean(_normalize_columns(s1.df)))

\* transform(df): the frame and the report it returns (exc = ""), or the
\* exception that escapes it, with what was appended to the two lists of
\* the transformer by then
transform(df) == TransformDeduplicated(Len(df.rows), _remove_duplicates(df))

(***************************************************************************)
(* DataExtractor.extract_from_google_sheets, from the values the Sheets    *)
(* API returned: a list of rows, each a list of strings, the first row     *)
(* being the headers                                                       *)
(***************************************************************************)
\* [''] * n
EmptyStrings(n) == [i \in 1..n |-> ""]

\* mutant of NormalizedRow: the row is padded but not cut
NormalizedRow_uncut(row, headers) ==
    row \o EmptyStrings(IF Len(headers) > Len(row) THEN Len(headers) - Len(row) ELSE 0)

\* normalized_row[:len(headers)], normalized_row being row padded with ''
NormalizedRow(row, headers) ==
    SubSeq(row \o EmptyStrings(IF Len(headers) > Len(row)
                               THEN Len(headers) - Len(row) ELSE 0),
           1, Len(headers))

\* the frame extract_from_google_sheets returns for the values
extract_from_google_sheets(values) ==
    IF values = <<>> THEN EmptyFrame
    ELSE [columns |-> Head(values),
          rows |-> AsTuple([i \in 1..(Len(values) - 1) |->
                      [idx |-> i - 1,
                       cells |-> AsTuple([j \in 1..Len(NormalizedRow(values[i + 1],
                                                                     Head(values))) |->
                                    PyStr(NormalizedRow(values[i + 1], Head(values))[j])])]])]

(***************************************************************************)
(* DataLoader.  The database is the two tables; students holds one entry   *)
(* per stored row.  A load call is given the faults of the database: the   *)
(* statements of department loading, of a student row (its first           *)
(* statement, or its UPDATE or INSERT) and the commit may raise.  The      *)
(* statements issued on the cursor and the connection are listed in order. *)
(***************************************************************************)
EmptyDb == [students |-> <<>>, departments |-> {}]

NoStats ==
    [departments_inserted |-> 0, students_inserted |-> 0, students_updated |-> 0,
     errors |-> <<>>]

\* row.get(name) of row i of df
RowGet(df, i, name) == IF HasColumn(df, name) THEN Cell(df, i, name) ELSE None

RECURSIVE UniqueDepartments(_, _, _)
\* df['department'].dropna().unique() without the falsy values, from row i
\* on, seen being the values met before
UniqueDepartments(df, i, seen) ==
    IF i > Len(df.rows) THEN <<>>
    ELSE IF Truthy(Cell(df, i, "department")) /\ Cell(df, i, "department") \notin seen
         THEN <<Cell(df, i, "department")>>
                  \o UniqueDepartments(df, i + 1, seen \cup {Cell(df, i, "department")})
         ELSE UniqueDepartments(df, i + 1, seen)

RECURSIVE InsertDepartments(_, _)
\* the loop of _load_departments over the departments ds, acc being the
\* table, the counters and the statements so far
InsertDepartments(ds, acc) ==
    IF ds = <<>> THEN acc
    ELSE InsertDepartments(
             Tail(ds),
             IF Head(ds) \in acc.db.departments
             THEN [acc EXCEPT !.statements =
                       @ \o <<[op |-> "SELECT department", key |-> Head(ds), row |-> 0]>>]
             ELSE [acc EXCEPT
                       !.statements =
                           @ \o <<[op |-> "SELECT department", key |-> Head(ds), row |-> 0],
                                  [op |-> "INSERT department", key |-> Head(ds), row |-> 0]>>,
                       !.db.departments = @ \cup {Head(ds)},
                       !.stats.departments_inserted = @ + 1])

\* _load_departments: exc names the exception that escapes it
_load_departments(df, acc, fault) ==
    IF ~HasColumn(df, "department") THEN acc
    ELSE IF fault /\ UniqueDepartments(df, 1, {}) /= <<>>
    THEN [acc EXCEPT
              !.statements =
                  @ \o <<[op |-> "SELECT department",
                          key |-> Head(UniqueDepartments(df, 1, {})), row |-> 0]>>,
              !.exc = "DatabaseError"]
    ELSE InsertDepartments(UniqueDepartments(df, 1, {}), acc)

\* a student with this email is stored
Stored(students, email) == \E k \in 1..Len(students) : students[k].student_email = email

\* the except clause of the loop body: the error of row i is listed
RowError(df, i, acc, issued) ==
    [acc EXCEPT !.statements = @ \o issued,
                !.stats.errors = @ \o <<[row |-> i, email |-> RowGet(df, i, "email")]>>]

\* mutant of WriteStudent: the student is inserted whether stored or not
WriteStudent_always_inserts(df, i, acc, issued, fault) ==
    IF fault = "write"
    THEN RowError(df, i, acc,
                  issued \o <<[op |-> "INSERT student", key |-> RowGet(df, i, "email"),
                               row |-> i]>>)
    ELSE [acc EXCEPT
              !.statements =
                  @ \o issued \o <<[op |-> "INSERT student",
                                    key |-> RowGet(df, i, "email"), row |-> i]>>,
              !.db.students =
                  @ \o <<[student_email |-> RowGet(df, i, "email"),
                          first_name |-> RowGet(df, i, "first_name")]>>,
              !.stats.students_inserted = @ + 1]

\* the UPDATE or INSERT of row i, after the statements issued for the row
WriteStudent(df, i, acc, issued, fault) ==
    IF Stored(acc.db.students, RowGet(df, i, "email"))
    THEN IF fault = "write"
         THEN RowError(df, i, acc,
                       issued \o <<[op |-> "UPDATE student",
                                    key |-> RowGet(df, i, "email"), row |-> i]>>)
         ELSE [acc EXCEPT
                   !.statements =
                       @ \o issued \o <<[op |-> "UPDATE student",
                                         key |-> RowGet(df, i, "email"), row |-> i]>>,
                   !.db.students =
                       AsTuple([k \in 1..Len(@) |->
                           IF @[k].student_email = RowGet(df, i, "email")
                           THEN [@[k] EXCEPT !.first_name = RowGet(df, i, "first_name")]
                           ELSE @[k]]),
                   !.stats.students_updated = @ + 1]
    ELSE IF fault = "write"
         THEN RowError(df, i, acc,
                       issued \o <<[op |-> "INSERT student",
                                    key |-> RowGet(df, i, "email"), row |-> i]>>)
         ELSE [acc EXCEPT
                   !.statements =
                       @ \o issued \o <<[op |-> "INSERT student",
                                         key |-> RowGet(df, i, "email"), row |-> i]>>,
                   !.db.students =
                       @ \o <<[student_email |-> RowGet(df, i, "email"),
                               first_name |-> RowGet(df, i, "first_name")]>>,
                   !.stats.students_inserted = @ + 1]

\* the SELECT of the department of row i, when the row has one
DepartmentSelect(df, i) ==
    IF Truthy(RowGet(df, i, "department"))
    THEN <<[op |-> "SELECT department", key |-> RowGet(df, i, "department"), row |-> i]>>
    ELSE <<>>

StudentSelect(df, i) ==
    <<[op |-> "SELECT student", key |-> RowGet(df, i, "email"), row |-> i]>>

\* the body of the loop of _load_students for row i; fault is "none",
\* "select" (the first statement of the row raises) or "write"
LoadStudent(df, i, acc, fault) ==
    IF fault = "select" /\ DepartmentSelect(df, i) /= <<>>
    THEN RowError(df, i, acc, DepartmentSelect(df, i))
    ELSE IF ~Truthy(RowGet(df, i, "email"))
    THEN [acc EXCEPT !.statements = @ \o DepartmentSelect(df, i)]
    ELSE IF fault = "select"
    THEN RowError(df, i, acc, StudentSelect(df, i))
    ELSE WriteStudent(df, i, acc, DepartmentSelect(df, i) \o StudentSelect(df, i), fault)

RECURSIVE _load_students(_, _, _, _)
\* _load_students, from row i on
_load_students(df, i, acc, faults) ==
    IF i > Len(df.rows) THEN acc
    ELSE _load_students(df, i + 1, LoadStudent(df, i, acc, faults[i]), faults)

\* mutant of LoadFails: no rollback, what was written stays
LoadFails_keeps_changes(acc, before) ==
    [acc EXCEPT !.stats.errors = @ \o <<[row |-> 0, email |-> None]>>,
                !.exc = "DatabaseError"]

\* the except clause of load: rollback, the error listed, the exception
\* raised again; before is the database as last committed
LoadFails(acc, before) ==
    [acc EXCEPT !.statements = @ \o <<[op |-> "ROLLBACK", key |-> None, row |-> 0]>>,
                !.db = before,
                !.stats.errors = @ \o <<[row |-> 0, email |-> None]>>,
                !.exc = "DatabaseError"]

\* self.conn.commit() and what follows it
LoadCommits(acc, before, fault) ==
    IF fault
    THEN LoadFails([acc EXCEPT !.statements =
                        @ \o <<[op |-> "COMMIT", key |-> None, row |-> 0]>>],
                   before)
    ELSE [acc EXCEPT !.statements = @ \o <<[op |-> "COMMIT", key |-> None, row |-> 0]>>]

\* load after _load_departments, d being its result
LoadAfterDepartments(df, d, before, faults) ==
    IF d.exc /= "" THEN LoadFails(d, before)
    ELSE LoadCommits(_load_students(df, 1, d, faults.rows), before, faults.commit)

\* loader.load(df) on the database db: the database after it, load_stats,
\* the statements issued and the exception that escapes, if any
load(df, db, faults) ==
    LoadAfterDepartments(
        df,
        _load_departments(df, [db |-> db, stats |-> NoStats, statements |-> <<>>,
                               exc |-> ""], faults.departments),
        db, faults)

(***************************************************************************)
(* Inputs                                                                  *)
(***************************************************************************)
\* the most rows of a batch that exercises duplicate removal, of a batch of
\* one raw column, and of a batch of whole records
MaxRows == 3
MaxFieldRows == 1
MaxRecords == 2

S(texts) == {PyStr(t) : t \in texts}

\* cell values of the raw columns: clean, messy, empty and null ones
StudentIdPool == S({"1", "2", " 2", ""}) \cup {None}
NamePool == S({"Ann", " Bob "})
EmailPool ==
    S({"test1@example.com", "  TEST2@EXAMPLE.COM ", "INVALID", "", "nan"}) \cup {None}
DepartmentPool == S({"CS", " compsci", "Mathematics", "Unknown Dept", ""}) \cup {None}
StatusPool == S({"Active", "GRADUATED ", "suspended", "bogus", ""}) \cup {None}
YearPool ==
    S({"1", "4.0", "5", "0", "-3", "2.9", "abc", "", "nan", "NaN", "inf", "-Infinity"})
    \cup {None}
PhonePool == S({"(555) 010-1234", "0101234", "12345", ""}) \cup {None}
DobPool ==
    S({"2003-05-15", "05/15/2003", "15-05-2003", "01/02/2003", "02/30/2003",
       "invalid", ""}) \cup {None}
GpaPool ==
    S({"3.85", "3.849", "2.675", "0.125", "0", "4.0", "4.001", "4.5", "-1", "-0.001",
       "##", "abc", "", "inf", "NaN"}) \cup {None}
NotesPool == S({"x", ""})

\* every frame of at most max rows over the given columns, each row one of
\* rowset, indexed 0, 1, 2, ... as a fresh DataFrame is
Frames(columns, rowset, max) ==
    UNION {{[columns |-> columns,
             rows |-> [i \in 1..n |-> [idx |-> i - 1, cells |-> r[i]]]] :
                r \in [1..n -> rowset]} : n \in 0..max}

\* batches that exercise duplicate removal
DedupBatches ==
    Frames(<<"Student ID", "First Name">>,
           {<<id, name>> : id \in StudentIdPool, name \in NamePool}, MaxRows)

\* batches of one raw column, without the identifier column; the last two
\* carry a header that is no key of column_mapping but is a canonical name
FieldBatches ==
    Frames(<<"Email">>, {<<v>> : v \in EmailPool}, MaxFieldRows)
    \cup Frames(<<"Department">>, {<<v>> : v \in DepartmentPool}, MaxFieldRows)
    \cup Frames(<<"Status">>, {<<v>> : v \in StatusPool}, MaxFieldRows)
    \cup Frames(<<"Year">>, {<<v>> : v \in YearPool}, MaxFieldRows)
    \cup Frames(<<"Phone">>, {<<v>> : v \in PhonePool}, MaxFieldRows)
    \cup Frames(<<"DOB">>, {<<v>> : v \in DobPool}, MaxFieldRows)
    \cup Frames(<<"GPA">>, {<<v>> : v \in GpaPool}, MaxFieldRows)
    \cup Frames(<<"Notes">>, {<<v>> : v \in NotesPool}, MaxFieldRows)
    \cup Frames(<<"email">>, {<<v>> : v \in EmailPool}, MaxFieldRows)
    \cup Frames(<<"gpa">>, {<<v>> : v \in GpaPool}, MaxFieldRows)

\* whole records, as a sheet with every header and one unknown header gives
AllHeaders ==
    <<"Student ID", "Email", "First Name", "Last Name", "Year", "Department",
      "Status", "Phone", "DOB", "GPA", "Notes">>
Record(id, email, first, last, year, dept, status, phone, dob, gpa, notes) ==
    <<id, email, first, last, year, dept, status, phone, dob, gpa, notes>>
E == PyStr("")
RecordPool ==
    { Record(PyStr("1"), PyStr("test1@example.com"), PyStr("John"), PyStr("Doe"),
             PyStr("1"), PyStr("CS"), PyStr("Active"), PyStr("5550101"),
             PyStr("2003-05-15"), PyStr("3.85"), PyStr("x")),
      Record(PyStr("2"), PyStr(" TEST2@EXAMPLE.COM"), PyStr("Jane"), PyStr("Smith"),
             PyStr("5"), PyStr("Math"), PyStr("INACTIVE"), PyStr("(555) 010-2222"),
             PyStr("05/20/2004"), PyStr("4.5"), E),
      Record(PyStr(" 2"), PyStr("INVALID"), PyStr("Bob"), PyStr("Williams"),
             PyStr("abc"), PyStr("Unknown Dept"), PyStr("bogus"), PyStr("12345"),
             PyStr("invalid"), PyStr("##"), E),
      Record(PyStr("3"), E, E, E, E, E, E, E, E, E, E),
      Record(PyStr("4"), None, None, None, None, None, None, None, None, None, None),
      Record(PyStr("5"), PyStr("test5@example.com"), PyStr("Eve"), PyStr("Inf"),
             PyStr("inf"), PyStr("EE"), PyStr("active"), E, E, PyStr("inf"), E),
      Record(PyStr("6"), PyStr("INVALID"), PyStr("Max"), PyStr("Out"),
             PyStr("5"), PyStr("CS"), PyStr("bogus"), PyStr("12345"),
             PyStr("02/30/2003"), PyStr("4.5"), E) }
RecordBatches == Frames(AllHeaders, RecordPool, MaxRecords)

\* batches without the identifier column
NoIdBatches ==
    Frames(<<"First Name", "Notes">>,
           {<<name, notes>> : name \in NamePool, notes \in NotesPool}, MaxRows)

Batches == DedupBatches \cup NoIdBatches \cup FieldBatches \cup RecordBatches

(***************************************************************************)
(* State: one DataTransformer, the last transform call made on it and the  *)
(* last validator called on it directly (as the unit tests do)             *)
(***************************************************************************)
VARIABLES
    validation_errors,   \* self.validation_errors
    transformation_log,  \* self.transformation_log
    outcome,             \* "fresh", or how the transform call ended: "returned", "raised"
    input,               \* the frame transform was called with
    output,              \* the frame transform returned
    report,              \* the report transform returned
    earlier,             \* the report an earlier transform call on the same
                         \* transformer returned, and the entries its two lists
                         \* held when it was returned
    sheet,               \* the values the Sheets API returned to the last extraction
    extracted,           \* the frame that extraction returned
    pc,                  \* where ETLPipeline.run stands: "idle" before it, then the
                         \* step it is about to take, "done" after it
    phases,              \* the phases the run has started, in order
    pipeline_report,     \* pipeline_report of the run
    logged,              \* how often the run has called _log_report
    run_result,          \* "returned" or "raised" once run has ended
    conn,                \* the connection of the loader: "none", "open", "closed"
    db,                  \* the database as last committed
    load_call,           \* the last call of loader.load: its frame, the database
                         \* before it, the faults, and what it returned
    pending,             \* the fields of the record under validation that no
                         \* validator has been called for yet
    call                 \* the last direct validator call: its name, argument, returned
                         \* value, escaped exception, and the lengths of the two lists
                         \* before it

extract_vars == <<sheet, extracted>>
run_vars == <<pc, phases, pipeline_report, logged, run_result, conn, db, load_call>>

vars ==
    <<validation_errors, transformation_log, outcome, input, output, report, earlier,
      call, pending, extract_vars, run_vars>>

NoEarlier == [held |-> FALSE, report |-> NoReport, errors |-> <<>>, log |-> <<>>]

NoPipelineReport ==
    [status |-> "SUCCESS", error |-> "", extract |-> FALSE, transform |-> FALSE,
     load |-> FALSE, ended |-> FALSE]

NoLoadCall ==
    [called |-> FALSE, df |-> EmptyFrame, before |-> EmptyDb,
     faults |-> [departments |-> FALSE, rows |-> <<>>, commit |-> FALSE],
     stats |-> NoStats, statements |-> <<>>, exc |-> ""]

NoCall == [fn |-> "", arg |-> None, val |-> None, exc |-> "", errs_before |-> 0,
           log_before |-> 0, again |-> FALSE]

\* DataTransformer()
Fresh ==
    /\ validation_errors = <<>>
    /\ transformation_log = <<>>
    /\ outcome = "fresh"
    /\ input = EmptyFrame
    /\ output = EmptyFrame
    /\ report = NoReport
    /\ earlier = NoEarlier
    /\ sheet = <<>>
    /\ extracted = EmptyFrame
    /\ call = NoCall
    /\ pending = {}
    /\ pc = "idle"
    /\ phases = <<>>
    /\ pipeline_report = NoPipelineReport
    /\ logged = 0
    /\ run_result = ""
    /\ conn = "none"
    /\ load_call = NoLoadCall

Init == Fresh /\ db = EmptyDb

\* a new DataTransformer replaces the one that has been used
Construct ==
    /\ outcome /= "fresh" \/ call /= NoCall
    /\ validation_errors' = <<>>
    /\ transformation_log' = <<>>
    /\ outcome' = "fresh"
    /\ input' = EmptyFrame
    /\ output' = EmptyFrame
    /\ report' = NoReport
    /\ earlier' = NoEarlier
    /\ pending' = {}
    /\ UNCHANGED <<extract_vars, run_vars>>
    /\ call' = NoCall

\* transformer.transform(df) on a fresh transformer
Transform(df) ==
    /\ outcome = "fresh"
    /\ call = NoCall
    /\ \E t \in {transform(df)} :
           /\ validation_errors' = validation_errors \o t.errs
           /\ transformation_log' = transformation_log \o t.log
           /\ outcome' = IF t.exc = "" THEN "returned" ELSE "raised"
           /\ input' = df
           /\ output' = t.df
           /\ report' = t.report
    /\ UNCHANGED <<pending, earlier, call, extract_vars, run_vars>>

Next ==
    \/ Construct
    \/ \E df \in Batches : Transform(df)

Spec == Init /\ [][Next]_vars

(***************************************************************************)
(* Runs of one ETLPipeline: each run calls transform on the transformer    *)
(* the pipeline made when it was constructed                               *)
(***************************************************************************)
\* the batches of the runs
RunBatches ==
    {df \in FieldBatches : df.columns \in {<<"Email">>, <<"Department">>, <<"Year">>}}

\* self.transformer.transform(df) of a later run; the caller still holds the
\* report of the run before
TransformAgain(df) ==
    /\ outcome = "returned"
    /\ call = NoCall
    /\ ~earlier.held
    /\ \E t \in {transform(df)} :
           /\ validation_errors' = validation_errors \o t.errs
           /\ transformation_log' = transformation_log \o t.log
           /\ outcome' = IF t.exc = "" THEN "returned" ELSE "raised"
           /\ input' = df
           /\ output' = t.df
           /\ report' = t.report
    /\ earlier' = [held |-> TRUE, report |-> report, errors |-> validation_errors,
                   log |-> transformation_log]
    /\ UNCHANGED <<pending, call, extract_vars, run_vars>>

NextRuns ==
    \/ Construct
    \/ \E df \in RunBatches : Transform(df)
    \/ \E df \in RunBatches : TransformAgain(df)

SpecRuns == Init /\ [][NextRuns]_vars

(***************************************************************************)
(* Extractions from a sheet                                                *)
(***************************************************************************)
\* the most data rows of a sheet and the most values of one of its rows
MaxSheetRows == 2
MaxRowLen == 2

SheetCells == {" x", ""}
SheetRows == UNION {[1..n -> SheetCells] : n \in 0..MaxRowLen}
SheetHeaders == {<<"Email">>, <<"Student ID", "Email">>}

\* what the API returns: nothing for an empty sheet, else the header row
\* and the data rows, each as long as its last filled cell
SheetValues ==
    {<<>>} \cup UNION {{<<h>> \o d : h \in SheetHeaders, d \in [1..n -> SheetRows]} :
                          n \in 0..MaxSheetRows}

\* extractor.extract_from_google_sheets(...), the API having returned values;
\* a call depends on no call before it, so one call is followed
ExtractFromSheets(values) ==
    /\ sheet = <<>>
    /\ sheet' = values
    /\ extracted' = extract_from_google_sheets(values)
    /\ UNCHANGED <<pending, validation_errors, transformation_log, outcome, input, output, report,
                   earlier, call, run_vars>>

NextExtract == \E values \in SheetValues : ExtractFromSheets(values)

SpecExtract == Init /\ [][NextExtract]_vars

(***************************************************************************)
(* One run of an ETLPipeline, step by step: extract, transform, connect,   *)
(* load, disconnect.  A step that raises takes the except and the finally  *)
(* clause of run with it.                                                  *)
(***************************************************************************)
\* the most rows of the batch of a run
MaxLoadRows == 2

\* rows as the extractors give them (text only), headers Email, First Name,
\* Department, Year
LoadRowPool ==
    { <<PyStr("a@x.co"), PyStr("Ann"), PyStr("CS"), PyStr("1")>>,
      <<PyStr(" A@X.CO"), PyStr("Bob"), PyStr(""), PyStr("1")>>,
      <<PyStr("b@x.co"), PyStr("Bob"), PyStr("Math"), PyStr("5")>>,
      <<PyStr(""), PyStr("Ann"), PyStr("CS"), PyStr("1")>>,
      <<PyStr("a@x.co"), PyStr("Ann"), PyStr("CS"), PyStr("inf")>> }
PipelineBatches ==
    Frames(<<"Email", "First Name", "Department", "Year">>, LoadRowPool, MaxLoadRows)

\* what the database may hold when a run starts
StoredDbs ==
    { EmptyDb,
      [students |-> <<[student_email |-> PyStr("a@x.co"), first_name |-> PyStr("Old")]>>,
       departments |-> {PyStr("Computer Science")}] }

InitPipeline == Fresh /\ db \in StoredDbs

\* the faults a load of df may meet
Faults(df) ==
    [departments : BOOLEAN, rows : [1..Len(df.rows) -> {"none", "select", "write"}],
     commit : BOOLEAN]

\* mutant of RunFails: the status of the report is left as it was
RunFails_status_kept(e) ==
    /\ pipeline_report' = [pipeline_report EXCEPT !.error = e, !.ended = TRUE]
    /\ logged' = logged + 1
    /\ run_result' = "raised"
    /\ pc' = "done"

\* except Exception as e: ... raise, and finally: ..., after a step raised e
RunFails(e) ==
    /\ pipeline_report' = [pipeline_report EXCEPT !.status = "FAILED", !.error = e,
                                                  !.ended = TRUE]
    /\ logged' = logged + 1
    /\ run_result' = "raised"
    /\ pc' = "done"

\* the extract phase: the extractor raises or returns a batch
RunExtract ==
    /\ pc = "idle"
    /\ phases' = phases \o <<"extract">>
    /\ \/ /\ RunFails("extract failed")
          /\ UNCHANGED extracted
       \/ /\ \E df \in PipelineBatches : extracted' = df
          /\ pipeline_report' = [pipeline_report EXCEPT !.extract = TRUE]
          /\ pc' = "transform"
          /\ UNCHANGED <<logged, run_result>>
    /\ UNCHANGED <<pending, validation_errors, transformation_log, outcome, input, output, report,
                   earlier, call, sheet, conn, db, load_call>>

\* the transform phase: self.transformer.transform(df)
RunTransform ==
    /\ pc = "transform"
    /\ phases' = phases \o <<"transform">>
    /\ \E t \in {transform(extracted)} :
           /\ validation_errors' = validation_errors \o t.errs
           /\ transformation_log' = transformation_log \o t.log
           /\ outcome' = IF t.exc = "" THEN "returned" ELSE "raised"
           /\ input' = extracted
           /\ output' = t.df
           /\ report' = t.report
           /\ IF t.exc /= "" THEN RunFails(t.exc)
              ELSE /\ pipeline_report' = [pipeline_report EXCEPT !.transform = TRUE]
                   /\ pc' = "connect"
                   /\ UNCHANGED <<logged, run_result>>
    /\ UNCHANGED <<pending, earlier, call, extract_vars, conn, db, load_call>>

\* the load phase begins: self.loader.connect()
RunConnect ==
    /\ pc = "connect"
    /\ phases' = phases \o <<"load">>
    /\ \/ /\ RunFails("connection failed")
          /\ UNCHANGED conn
       \/ /\ conn' = "open"
          /\ pc' = "load"
          /\ UNCHANGED <<pipeline_report, logged, run_result>>
    /\ UNCHANGED <<pending, validation_errors, transformation_log, outcome, input, output, report,
                   earlier, call, extract_vars, db, load_call>>

\* self.loader.load(df_transformed)
RunLoad ==
    /\ pc = "load"
    /\ \E faults \in Faults(output) : \E r \in {load(output, db, faults)} :
           /\ load_call' = [called |-> TRUE, df |-> output, before |-> db,
                            faults |-> faults, stats |-> r.stats,
                            statements |-> r.statements, exc |-> r.exc]
           /\ db' = r.db
           /\ IF r.exc /= "" THEN RunFails(r.exc)
              ELSE /\ pc' = "disconnect"
                   /\ UNCHANGED <<pipeline_report, logged, run_result>>
    /\ UNCHANGED <<pending, validation_errors, transformation_log, outcome, input, output, report,
                   earlier, call, extract_vars, phases, conn>>

\* self.loader.disconnect(), the report completed, logged and returned
RunDisconnect ==
    /\ pc = "disconnect"
    /\ conn' = "closed"
    /\ pipeline_report' = [pipeline_report EXCEPT !.load = TRUE, !.ended = TRUE]
    /\ logged' = logged + 1
    /\ run_result' = "returned"
    /\ pc' = "done"
    /\ UNCHANGED <<pending, validation_errors, transformation_log, outcome, input, output, report,
                   earlier, call, extract_vars, phases, db, load_call>>

NextPipeline ==
    \/ RunExtract
    \/ RunTransform
    \/ RunConnect
    \/ RunLoad
    \/ RunDisconnect

SpecPipeline == InitPipeline /\ [][NextPipeline]_vars

(***************************************************************************)
(* Direct calls of the validators on one transformer                       *)
(***************************************************************************)
\* the most entries the two lists of the transformer hold before a call
MaxAppended == 1

\* arguments of the direct calls: the raw texts (untrimmed), None, and for
\* the two numeric validators also numbers, as the unit tests pass them
ValidatorArgs(fn) ==
    CASE fn = "email" ->
            EmailPool
            \cup S({"a.b-c@d-e.f.co", "A_1@B.CO", "a@b", "@b.co", "a@b.c-o", "a b@c.co",
                    "a@@b.co", " nan ", "  ", "None"})
      [] fn = "department" ->
            DepartmentPool
            \cup S({"Computer Science", "EE", "math", "Physics ", "business", "nan", "None"})
      [] fn = "status" ->
            StatusPool \cup S({"inactive", " Suspended ", "ACTIVE", "nan", "None"})
      [] fn = "year_level" ->
            YearPool \cup S({" 3 ", "4.9", "+2", "0.9", "-0.5", "5.", ".5", "1.2.3", "##"})
            \cup {PyInt(0), PyInt(3), PyInt(7), PyFloat(2500), PyFloat(0), PosInf, NaN}
      [] fn = "phone" ->
            PhonePool
            \cup S({"555.010.1234", "5550101234", "1-800-555-0199", " 555 0101 ", "phone",
                    "nan", "None"})
      [] fn = "date_of_birth" ->
            DobPool
            \cup S({"2004-02-29", "2003-02-29", "29/02/2004", "1/2/2003", " 2003-5-3 ",
                    "12/31/1999", "31/12/1999", "2003-13-01", "2003/05/15", "05-15-2003",
                    "13/01/2003", "0999-05-15", "05/15/0099", "nan", "None"})
      [] fn = "gpa" ->
            GpaPool \cup S({" 2.5 ", "3.845", "3.995", "0.005", "+4", "4.", "None"})
            \cup {PyInt(0), PyInt(3), PyInt(5), PyFloat(4000), PyFloat(3849), PyFloat(0),
                  PyFloat(4001), NaN}

ValidatorNames == {validated_columns[c] : c \in 1..Len(validated_columns)}

\* transformer._clean_xxx(x)
CallValidator(fn, x) ==
    /\ outcome = "fresh"
    /\ Len(validation_errors) + Len(transformation_log) < MaxAppended
    /\ \E r \in {Validate(fn, x)} :
           /\ validation_errors' = validation_errors \o r.errs
           /\ transformation_log' = transformation_log \o r.log
           /\ call' = [fn |-> fn, arg |-> x, val |-> r.val, exc |-> r.exc,
                       errs_before |-> Len(validation_errors),
                       log_before |-> Len(transformation_log), again |-> FALSE]
    /\ UNCHANGED <<pending, outcome, input, output, report, earlier, extract_vars, run_vars>>

NextValidators ==
    \/ Construct
    \/ \E fn \in ValidatorNames : \E x \in ValidatorArgs(fn) : CallValidator(fn, x)

SpecValidators == Init /\ [][NextValidators]_vars

(***************************************************************************)
(* A validator applied to the value it has just returned                   *)
(***************************************************************************)
\* transformer._clean_xxx(transformer._clean_xxx(x)): the second call, on the
\* value the first one returned when that value is not None
CallValidatorAgain ==
    /\ outcome = "fresh"
    /\ call.fn /= "" /\ ~call.again
    /\ call.exc = "" /\ call.val /= None
    /\ \E r \in {Validate(call.fn, call.val)} :
           /\ validation_errors' = validation_errors \o r.errs
           /\ transformation_log' = transformation_log \o r.log
           /\ call' = [fn |-> call.fn, arg |-> call.val, val |-> r.val, exc |-> r.exc,
                       errs_before |-> Len(validation_errors),
                       log_before |-> Len(transformation_log), again |-> TRUE]
    /\ UNCHANGED <<pending, outcome, input, output, report, earlier, extract_vars, run_vars>>

NextReapply ==
    \/ Construct
    \/ \E fn \in ValidatorNames : \E x \in ValidatorArgs(fn) : CallValidator(fn, x)
    \/ CallValidatorAgain

SpecReapply == Init /\ [][NextReapply]_vars

(***************************************************************************)
(* Properties of a transform run.  They read the batch the run was given   *)
(* (input), the frame and the report it returned (output, report) and the  *)
(* two lists of the transformer.                                           *)
(***************************************************************************)
Returned == outcome = "returned"

\* the raw identifier of input row i (rows are numbered from 1, their index
\* labels from 0)
RawId(i) == input.rows[i].cells[ColumnAt(input, "Student ID")]

\* input row i is the first row of the batch with its identifier
FirstOfItsId(i) == \A h \in 1..(i - 1) : RawId(h) /= RawId(i)

\* the input rows that reached the output, by position in the input
Survivors == {output.rows[k].idx + 1 : k \in 1..Len(output.rows)}

\* the output keeps the order of the input and repeats no row
OutputInInputOrder ==
    \A k, l \in 1..Len(output.rows) : k < l => output.rows[k].idx < output.rows[l].idx

DuplicateEventsLogged ==
    {e \in 1..Len(transformation_log) : transformation_log[e].action = "DUPLICATE_REMOVED"}

\* C1: with a 'Student ID' column in the batch, the rows transform returns
\* are exactly the first row of every distinct raw identifier (one row per
\* identifier, every later row with it dropped), in their original order.
C1_KeepsFirstOfEachId ==
    (Returned /\ HasColumn(input, "Student ID")) =>
        /\ Survivors = {i \in 1..Len(input.rows) : FirstOfItsId(i)}
        /\ OutputInInputOrder
        /\ \A i \in 1..Len(input.rows) :
              Cardinality({j \in Survivors : RawId(j) = RawId(i)}) = 1

\* a batch <<a, b, a>>: the third row is dropped, the first two stay
C1_Witness ==
    /\ Returned /\ HasColumn(input, "Student ID")
    /\ Len(input.rows) = 3
    /\ RawId(1) = RawId(3) /\ RawId(1) /= RawId(2)
    /\ Survivors = {1, 2}

\* the number of rows of the batch that repeat the identifier of an earlier
\* row
LaterOccurrences ==
    IF HasColumn(input, "Student ID")
    THEN Cardinality({i \in 1..Len(input.rows) : ~FirstOfItsId(i)})
    ELSE 0

\* C2: the report of a run has original_count = final_count +
\* duplicates_removed with duplicates_removed >= 0, the counts are those of
\* the batch and of the returned frame, and duplicates_removed is the number
\* of rows the duplicate resolver dropped.
C2_ReportCounts ==
    Returned =>
        /\ report.original_count = Len(input.rows)
        /\ report.final_count = Len(output.rows)
        /\ report.original_count = report.final_count + report.duplicates_removed
        /\ report.duplicates_removed >= 0
        /\ report.duplicates_removed = LaterOccurrences

C2_Witness ==
    /\ Returned
    /\ report.original_count = 3
    /\ report.final_count = 1
    /\ report.duplicates_removed = 2

\* the number of rows of the batch that duplicate removal keeps
RowsAfterDedup == Len(input.rows) - LaterOccurrences

\* C3: whatever the values of its fields (text that is no number, 'inf',
\* numbers out of range, malformed emails or dates), transform returns
\* normally, with one output record per row that survived duplicate removal.
C3_FieldProblemsNeverAbort ==
    /\ outcome /= "raised"
    /\ Returned => Len(output.rows) = RowsAfterDedup

(***************************************************************************)
(* Properties of a direct validator call.  They read the call (its name,   *)
(* argument, returned value and escaped exception) and the growth of       *)
(* validation_errors over it.                                              *)
(***************************************************************************)
ErrorsAppended == Len(validation_errors) - call.errs_before
LastErrorField == validation_errors[Len(validation_errors)].field

\* the integer Python's int(float(x)) gives for the year arguments that
\* reach the range test
YearParsed ==
    (PyStr("1") :> 1) @@ (PyStr("4.0") :> 4) @@ (PyStr("5") :> 5) @@ (PyStr("0") :> 0)
    @@ (PyStr("-3") :> -3) @@ (PyStr("2.9") :> 2) @@ (PyStr(" 3 ") :> 3)
    @@ (PyStr("4.9") :> 4) @@ (PyStr("+2") :> 2) @@ (PyStr("0.9") :> 0)
    @@ (PyStr("-0.5") :> 0) @@ (PyStr("5.") :> 5) @@ (PyStr(".5") :> 0)
    @@ (PyInt(3) :> 3) @@ (PyInt(7) :> 7) @@ (PyFloat(2500) :> 2)

YearUnparsable == S({"", "abc", "1.2.3", "##", "nan", "NaN"}) \cup {None}

\* C5: for a year that is empty, unset or cannot be parsed as a number
\* _clean_year returns unset and appends no ValidationError; the text '4.0'
\* is accepted and gives the integer 4.
C5_YearUnparsableUnset ==
    call.fn = "year_level" =>
        /\ call.arg \in YearUnparsable =>
              call.exc = "" /\ call.val = None /\ ErrorsAppended = 0
        /\ call.arg = PyStr("4.0") =>
              call.exc = "" /\ call.val = PyInt(4) /\ ErrorsAppended = 0

\* _clean_year("abc") returned None and appended nothing
C5_Witness ==
    /\ call.fn = "year_level" /\ call.exc = ""
    /\ call.arg = PyStr("abc")
    /\ call.val = None
    /\ ErrorsAppended = 0

\* GPA arguments that parse to a value outside [0.0, 4.0], and arguments
\* that are empty, '##', unset or no number
GpaOutOfRange ==
    S({"4.001", "4.5", "-1", "-0.001", "inf"}) \cup {PyInt(5), PyFloat(4001)}
GpaUnparsable == S({"", "##", "abc", "None"}) \cup {None}

\* what Python's round(float(x), 2) gives for the GPA arguments in range, in
\* thousandths
GpaRounded ==
    (PyStr("3.85") :> 3850) @@ (PyStr("3.849") :> 3850) @@ (PyStr("2.675") :> 2670)
    @@ (PyStr("0.125") :> 120) @@ (PyStr("0") :> 0) @@ (PyStr("4.0") :> 4000)
    @@ (PyStr(" 2.5 ") :> 2500) @@ (PyStr("3.845") :> 3850) @@ (PyStr("3.995") :> 4000)
    @@ (PyStr("0.005") :> 10) @@ (PyStr("+4") :> 4000) @@ (PyStr("4.") :> 4000)
    @@ (PyInt(3) :> 3000) @@ (PyFloat(4000) :> 4000) @@ (PyFloat(3849) :> 3850)

\* C6: every value _clean_gpa returns is unset or a decimal in [0.00, 4.00]
\* rounded to 2 places; a parsed value outside [0.0, 4.0] yields unset, never
\* a bound, with exactly one ValidationError for gpa; an empty, '##' or
\* unparsable input yields unset with no ValidationError.
C6_GpaUnsetOrInRange ==
    call.fn = "gpa" =>
        /\ call.exc = ""
        /\ \/ call.val = None
           \/ /\ IsFinite(call.val)
              /\ 0 <= call.val.n /\ call.val.n <= 4000
              /\ call.val.n % 10 = 0
        /\ call.arg \in DOMAIN GpaRounded =>
              call.val = PyFloat(GpaRounded[call.arg]) /\ ErrorsAppended = 0
        /\ call.arg \in GpaOutOfRange =>
              /\ call.val = None
              /\ ErrorsAppended = 1 /\ LastErrorField = "gpa"
        /\ call.arg \in GpaUnparsable =>
              call.val = None /\ ErrorsAppended = 0

\* _clean_gpa("4.5") returned None and appended one error
C6_Witness ==
    /\ call.fn = "gpa" /\ call.exc = ""
    /\ call.arg = PyStr("4.5")
    /\ call.val = None
    /\ ErrorsAppended = 1

IsEmptyId(v) == v = None \/ v = PyStr("")

\* C7: rows with an empty or unset 'Student ID' are never duplicates of each
\* other: all of them are kept and no duplicate event is logged for them.
C7_EmptyIdsNeverDuplicates ==
    (Returned /\ HasColumn(input, "Student ID")) =>
        /\ \A i \in 1..Len(input.rows) : IsEmptyId(RawId(i)) => i \in Survivors
        /\ \A e \in DuplicateEventsLogged : ~IsEmptyId(transformation_log[e].student_id)

\* the student_id of output row k
OutputId(k) == output.rows[k].cells[ColumnAt(output, "student_id")]

\* C8: no two records of the output carry the same non-empty student_id.
C8_OutputIdsUnique ==
    (Returned /\ HasColumn(output, "student_id")) =>
        \A k, l \in 1..Len(output.rows) :
            (k /= l /\ OutputId(k) = OutputId(l)) => OutputId(k) \in {None, PyStr("")}

\* C9: without a 'Student ID' column every row passes through in order, no
\* duplicate event is logged and duplicates_removed is 0.
C9_NoIdColumnNoOp ==
    (Returned /\ ~HasColumn(input, "Student ID")) =>
        /\ Len(output.rows) = Len(input.rows)
        /\ \A k \in 1..Len(output.rows) : output.rows[k].idx = k - 1
        /\ DuplicateEventsLogged = {}
        /\ report.duplicates_removed = 0

\* a batch without the column in which two rows are equal cell by cell
C9_Witness ==
    /\ Returned /\ ~HasColumn(input, "Student ID")
    /\ Len(input.rows) >= 2
    /\ input.rows[1].cells = input.rows[2].cells
    /\ Len(output.rows) = Len(input.rows)

\* the raw cell, under the given header, of the input row that output row k
\* comes from
RawCellOf(k, header) ==
    input.rows[output.rows[k].idx + 1].cells[ColumnAt(input, header)]

\* the raw headers of the fields whose empty value is unset
UnsetWhenEmpty == {"Email", "Department", "Year", "Phone", "DOB"}

\* C10: a field of an input record that is unset or empty comes out unset
\* for email, department, year_level, phone and date_of_birth and as 'active'
\* for status, no ValidationError is recorded for it, and trimming never
\* makes an unset value a non-empty string.
C10_UnsetOrEmptyStaysUnset ==
    Returned =>
        \A h \in DOMAIN column_mapping :
            HasColumn(input, h) =>
                /\ HasColumn(output, column_mapping[h]) =>
                      \A k \in 1..Len(output.rows) :
                          IsEmptyId(RawCellOf(k, h)) =>
                              CASE h \in UnsetWhenEmpty ->
                                      Cell(output, k, column_mapping[h]) = None
                                [] h = "Status" ->
                                      Cell(output, k, column_mapping[h]) = PyStr("active")
                                [] OTHER ->
                                      Cell(output, k, column_mapping[h])
                                          \in {None, PyStr("")}
                /\ (\A i \in 1..Len(input.rows) :
                        IsEmptyId(input.rows[i].cells[ColumnAt(input, h)])) =>
                      \A e \in 1..Len(validation_errors) :
                          validation_errors[e].field /= column_mapping[h]

\* the digits of the phone arguments, in order, as re.sub(r'\D', '', x)
\* leaves them
PhoneDigits ==
    (PyStr("(555) 010-1234") :> "5550101234") @@ (PyStr("0101234") :> "0101234")
    @@ (PyStr("12345") :> "12345") @@ (PyStr("555.010.1234") :> "5550101234")
    @@ (PyStr("5550101234") :> "5550101234")
    @@ (PyStr("1-800-555-0199") :> "18005550199") @@ (PyStr(" 555 0101 ") :> "5550101")
    @@ (PyStr("phone") :> "") @@ (PyStr("nan") :> "") @@ (PyStr("None") :> "")

\* the phone number the claim gives for the text x with the digits d
PhoneClaimed(x, d) ==
    CASE Len(d) = 10 ->
            PyStr(SubSeq(d, 1, 3) \o "-" \o SubSeq(d, 4, 6) \o "-" \o SubSeq(d, 7, 10))
      [] Len(d) = 7 -> PyStr(SubSeq(d, 1, 3) \o "-" \o SubSeq(d, 4, 7))
      [] OTHER -> x

\* C11 as stated: for every non-empty phone input _clean_phone returns
\* 'AAA-BBB-CCCC' from its digits when it has exactly 10, 'AAA-BBBB' when it
\* has exactly 7, the input untouched for any other count, and never appends
\* a ValidationError.
C11_PhoneEveryNonEmpty ==
    (call.fn = "phone" /\ call.arg \in DOMAIN PhoneDigits) =>
        /\ call.exc = ""
        /\ call.val = PhoneClaimed(call.arg, PhoneDigits[call.arg])
        /\ ErrorsAppended = 0

\* C11, amended: the same for every phone input that is not empty, unset or
\* the text 'nan'; for those three _clean_phone returns unset; it never
\* appends a ValidationError.
C11_PhoneFormats ==
    call.fn = "phone" =>
        /\ call.exc = "" /\ ErrorsAppended = 0
        /\ call.arg \in {None, PyStr(""), PyStr("nan")} => call.val = None
        /\ (call.arg \in DOMAIN PhoneDigits /\ call.arg /= PyStr("nan")) =>
              call.val = PhoneClaimed(call.arg, PhoneDigits[call.arg])

\* _clean_phone("(555) 010-1234") returned "555-010-1234"
C11_Witness ==
    /\ call.fn = "phone" /\ call.exc = ""
    /\ call.arg = PyStr("(555) 010-1234")
    /\ call.val = PyStr("555-010-1234")
    /\ ErrorsAppended = 0

\* the calendar date the first matching format of the list reads from the
\* date arguments, in canonical YYYY-MM-DD form; "" when no format matches
DateClaimed ==
    (PyStr("2003-05-15") :> "2003-05-15") @@ (PyStr("05/15/2003") :> "2003-05-15")
    @@ (PyStr("05-15-2003") :> "2003-05-15") @@ (PyStr("15-05-2003") :> "2003-05-15")
    @@ (PyStr("13/01/2003") :> "2003-01-13") @@ (PyStr("01/02/2003") :> "2003-01-02")
    @@ (PyStr("1/2/2003") :> "2003-01-02") @@ (PyStr(" 2003-5-3 ") :> "2003-05-03")
    @@ (PyStr("12/31/1999") :> "1999-12-31") @@ (PyStr("31/12/1999") :> "1999-12-31")
    @@ (PyStr("2004-02-29") :> "2004-02-29") @@ (PyStr("29/02/2004") :> "2004-02-29")
    @@ (PyStr("0999-05-15") :> "0999-05-15") @@ (PyStr("05/15/0099") :> "0099-05-15")
    @@ (PyStr("02/30/2003") :> "") @@ (PyStr("2003-02-29") :> "")
    @@ (PyStr("2003-13-01") :> "") @@ (PyStr("2003/05/15") :> "")
    @@ (PyStr("invalid") :> "") @@ (PyStr("None") :> "")

\* s has the form YYYY-MM-DD
IsCanonicalDate(s) ==
    /\ Len(s) = 10
    /\ \A i \in 1..10 : IF i \in {5, 8} THEN Char(s, i) = "-" ELSE IsDigit(Char(s, i))

\* C12: _clean_date tries YYYY-MM-DD, MM/DD/YYYY, MM-DD-YYYY, DD/MM/YYYY,
\* DD-MM-YYYY in that order and the first that parses wins; every result
\* that is not unset has the canonical form YYYY-MM-DD and is the parsed
\* date; a present value that matches no format yields unset and exactly one
\* ValidationError for date_of_birth.
C12_DateFirstFormatCanonical ==
    call.fn = "date_of_birth" =>
        /\ call.exc = ""
        /\ call.val /= None => (IsStr(call.val) /\ IsCanonicalDate(call.val.s))
        /\ call.arg \in DOMAIN DateClaimed =>
              IF DateClaimed[call.arg] = ""
              THEN /\ call.val = None
                   /\ ErrorsAppended = 1 /\ LastErrorField = "date_of_birth"
              ELSE /\ call.val = PyStr(DateClaimed[call.arg])
                   /\ ErrorsAppended = 0

\* what Python gives for the email arguments: x.lower().strip(), and whether
\* re.match finds the pattern ^[\w\.-]+@[\w\.-]+\.\w+$ in it
EmailCleaned ==
    (PyStr("test1@example.com") :> [s |-> "test1@example.com", ok |-> TRUE])
    @@ (PyStr("  TEST2@EXAMPLE.COM ") :> [s |-> "test2@example.com", ok |-> TRUE])
    @@ (PyStr("a.b-c@d-e.f.co") :> [s |-> "a.b-c@d-e.f.co", ok |-> TRUE])
    @@ (PyStr("A_1@B.CO") :> [s |-> "a_1@b.co", ok |-> TRUE])
    @@ (PyStr("INVALID") :> [s |-> "invalid", ok |-> FALSE])
    @@ (PyStr("a@b") :> [s |-> "a@b", ok |-> FALSE])
    @@ (PyStr("@b.co") :> [s |-> "@b.co", ok |-> FALSE])
    @@ (PyStr("a@b.c-o") :> [s |-> "a@b.c-o", ok |-> FALSE])
    @@ (PyStr("a b@c.co") :> [s |-> "a b@c.co", ok |-> FALSE])
    @@ (PyStr("a@@b.co") :> [s |-> "a@@b.co", ok |-> FALSE])
    @@ (PyStr(" nan ") :> [s |-> "nan", ok |-> FALSE])
    @@ (PyStr("  ") :> [s |-> "", ok |-> FALSE])
    @@ (PyStr("None") :> [s |-> "none", ok |-> FALSE])

\* C13: _clean_email returns unset without error for an empty, unset or
\* 'nan' input; for any other input it returns the lowercased, trimmed value
\* when that matches the pattern local@domain.tld, and otherwise returns
\* unset and appends exactly one ValidationError for field email.
C13_EmailCleanedOrUnset ==
    call.fn = "email" =>
        /\ call.exc = ""
        /\ call.arg \in {None, PyStr(""), PyStr("nan")} =>
              call.val = None /\ ErrorsAppended = 0
        /\ call.arg \in DOMAIN EmailCleaned =>
              IF EmailCleaned[call.arg].ok
              THEN call.val = PyStr(EmailCleaned[call.arg].s) /\ ErrorsAppended = 0
              ELSE /\ call.val = None
                   /\ ErrorsAppended = 1 /\ LastErrorField = "email"

\* _clean_email("  TEST2@EXAMPLE.COM ") returned "test2@example.com"
C13_Witness ==
    /\ call.fn = "email" /\ call.exc = ""
    /\ call.arg = PyStr("  TEST2@EXAMPLE.COM ")
    /\ call.val = PyStr("test2@example.com")
    /\ ErrorsAppended = 0

\* the department the claim gives for the department arguments: the
\* canonical name of the alias x.lower().strip(), or x itself
DepartmentClaimed ==
    (PyStr("CS") :> "Computer Science") @@ (PyStr(" compsci") :> "Computer Science")
    @@ (PyStr("Computer Science") :> "Computer Science")
    @@ (PyStr("math") :> "Mathematics") @@ (PyStr("Mathematics") :> "Mathematics")
    @@ (PyStr("Physics ") :> "Physics") @@ (PyStr("business") :> "Business Administration")
    @@ (PyStr("EE") :> "Electrical Engineering")
    @@ (PyStr("Unknown Dept") :> "Unknown Dept") @@ (PyStr("None") :> "None")
    @@ (PyStr("nan") :> "nan")

CanonicalDepartments == {DEPARTMENT_MAPPING[a] : a \in DOMAIN DEPARTMENT_MAPPING}

\* every canonical name, lowercased, is an alias of itself
CanonicalMapsToItself ==
    \A c \in CanonicalDepartments :
        Lower(c) \in DOMAIN DEPARTMENT_MAPPING /\ DEPARTMENT_MAPPING[Lower(c)] = c

\* C14 as stated: _map_department returns unset for an empty or unset input,
\* the canonical name for an input whose lowercased, trimmed form is in the
\* alias table (every canonical name maps to itself), the input unchanged
\* for any other value, and never appends a ValidationError.
C14_DepartmentEveryOther ==
    call.fn = "department" =>
        /\ call.exc = "" /\ ErrorsAppended = 0
        /\ CanonicalMapsToItself
        /\ call.arg \in {None, PyStr("")} => call.val = None
        /\ call.arg \in DOMAIN DepartmentClaimed =>
              call.val = PyStr(DepartmentClaimed[call.arg])

\* C14, amended: the same, except that the text 'nan' is unset like an empty
\* input instead of being passed through.
C14_DepartmentMapped ==
    call.fn = "department" =>
        /\ call.exc = "" /\ ErrorsAppended = 0
        /\ CanonicalMapsToItself
        /\ call.arg \in {None, PyStr(""), PyStr("nan")} => call.val = None
        /\ (call.arg \in DOMAIN DepartmentClaimed /\ call.arg /= PyStr("nan")) =>
              call.val = PyStr(DepartmentClaimed[call.arg])

\* _map_department(" compsci") returned "Computer Science"
C14_Witness ==
    /\ call.fn = "department" /\ call.exc = ""
    /\ call.arg = PyStr(" compsci")
    /\ call.val = PyStr("Computer Science")
    /\ ErrorsAppended = 0

\* the fixed set of statuses
Statuses == {"active", "inactive", "graduated", "suspended"}

\* the status the claim gives for the status arguments
StatusClaimed ==
    (PyStr("Active") :> "active") @@ (PyStr("ACTIVE") :> "active")
    @@ (PyStr("inactive") :> "inactive") @@ (PyStr("GRADUATED ") :> "graduated")
    @@ (PyStr("suspended") :> "suspended") @@ (PyStr(" Suspended ") :> "suspended")
    @@ (PyStr("bogus") :> "active") @@ (PyStr("nan") :> "active")
    @@ (PyStr("None") :> "active") @@ (PyStr("") :> "active") @@ (None :> "active")

\* C15: _map_status always returns a member of {active, inactive, graduated,
\* suspended}: the matching member when the lowercased, trimmed input is in
\* the set, 'active' for an empty, unset or unrecognized input; it never
\* returns unset and never appends a ValidationError.
C15_StatusInFixedSet ==
    call.fn = "status" =>
        /\ call.exc = "" /\ ErrorsAppended = 0
        /\ IsStr(call.val) /\ call.val.s \in Statuses
        /\ call.arg \in DOMAIN StatusClaimed => call.val = PyStr(StatusClaimed[call.arg])

\* _map_status("GRADUATED ") returned "graduated"
C15_Witness ==
    /\ call.fn = "status" /\ call.exc = ""
    /\ call.arg = PyStr("GRADUATED ")
    /\ call.val = PyStr("graduated")

\* the fixed list of fields of an output record
FixedFields ==
    <<"student_id", "email", "first_name", "last_name", "year_level", "department",
      "status", "phone", "date_of_birth">>

\* the name the column with raw header h has after the rename
NameAfterRename(h) == IF h \in DOMAIN column_mapping THEN column_mapping[h] ELSE h

\* C16: the records transform returns hold only fields of the fixed list
\* (student_id, email, first_name, last_name, year_level, department,
\* status, phone, date_of_birth), in that order; a listed field the input
\* lacks is omitted without error; gpa and unrecognized headers never
\* appear.
C16_OnlySchemaFieldsInOrder ==
    Returned =>
        /\ output.columns =
              SelectSeq(FixedFields,
                        LAMBDA f : \E j \in 1..Len(input.columns) :
                                       NameAfterRename(input.columns[j]) = f)
        /\ \A k \in 1..Len(output.rows) :
              Len(output.rows[k].cells) = Len(output.columns)
        /\ \A f \in {"gpa", "GPA", "Notes"} : ~HasColumn(output, f)

\* a whole record with GPA and Notes comes out with the nine fields
C16_Witness ==
    /\ Returned
    /\ input.columns = AllHeaders
    /\ Len(output.rows) = 2
    /\ output.columns = FixedFields

\* a batch with one column of the list comes out with that field alone
C16_OmittedWitness ==
    /\ Returned
    /\ input.columns = <<"Phone">>
    /\ output.columns = <<"phone">>
    /\ Len(output.rows) = 1

\* the raw headers of the batch that the lookup holds
KnownHeaders == {h \in DOMAIN column_mapping : HasColumn(input, h)}

\* C17: each value whose header is in the lookup is placed under its
\* canonical name, every string value is trimmed before a validator sees
\* it, and a header absent from the lookup produces no output field, no
\* error and no event.
C17_KnownHeadersTrimmedOthersDropped ==
    Returned =>
        /\ \A h \in KnownHeaders : \A k \in 1..Len(output.rows) :
              (h /= "GPA" /\ IsStr(RawCellOf(k, h))) =>
                  Cell(output, k, column_mapping[h]) =
                      IF column_mapping[h] \in {"student_id", "first_name", "last_name"}
                      THEN PyStr(Strip(RawCellOf(k, h).s))
                      ELSE Validate(column_mapping[h], PyStr(Strip(RawCellOf(k, h).s))).val
        /\ \A j \in 1..Len(input.columns) : \A k \in 1..Len(output.rows) :
              input.columns[j] \notin DOMAIN column_mapping =>
                  ~HasColumn(output, input.columns[j])
        /\ \A e \in 1..Len(validation_errors) :
              \E h \in KnownHeaders : column_mapping[h] = validation_errors[e].field
        /\ KnownHeaders = {} => transformation_log = <<>>

\* C18 (two fresh transformers given equal batches return equal records and
\* counts) compares two evaluations of transform on one argument; no formula
\* is given for it.

\* the batch has no recognized header at all
NoRecognizedHeader ==
    \A j \in 1..Len(input.columns) :
        /\ input.columns[j] \notin DOMAIN column_mapping
        /\ \A f \in 1..Len(FixedFields) : input.columns[j] /= FixedFields[f]

\* C19: when the batch contains none of the required columns (no recognized
\* header at all), transform returns neither records nor a report: it fails
\* the run.
C19_NoRecognizedHeaderFails ==
    (outcome /= "fresh" /\ NoRecognizedHeader) => outcome = "raised"

\* the entries read now through the lists of a report
ReportErrors(r) ==
    IF r.validation_errors = "self.validation_errors" THEN validation_errors ELSE <<>>
ReportTransformations(r) ==
    IF r.transformations = "self.transformation_log" THEN transformation_log ELSE <<>>

\* C20: the report of a transform call holds only entries that call
\* produced, and a later transform call on the same DataTransformer neither
\* adds entries to a report returned earlier nor changes it.
C20_ReportOwnedByItsCall ==
    /\ Returned =>
          /\ ReportErrors(report) = transform(input).errs
          /\ ReportTransformations(report) = transform(input).log
    /\ earlier.held =>
          /\ ReportErrors(earlier.report) = earlier.errors
          /\ ReportTransformations(earlier.report) = earlier.log

\* the rows of the batch that duplicate removal drops, in input order
RECURSIVE DroppedFrom(_)
DroppedFrom(i) ==
    IF i > Len(input.rows) THEN <<>>
    ELSE (IF FirstOfItsId(i) THEN <<>> ELSE <<i>>) \o DroppedFrom(i + 1)

\* the DUPLICATE_REMOVED entries of transformation_log, in order
DuplicateLog == SelectSeq(transformation_log, LAMBDA e : e.action = "DUPLICATE_REMOVED")

\* C21: every row the duplicate resolver drops is recorded as exactly one
\* DUPLICATE_REMOVED event carrying the identifier of that row and never as
\* a ValidationError, so the number of DUPLICATE_REMOVED events of a run on a
\* fresh transformer equals duplicates_removed.
C21_OneEventPerDroppedRow ==
    Returned =>
        /\ Len(DuplicateLog) = report.duplicates_removed
        /\ HasColumn(input, "Student ID") =>
              /\ Len(DuplicateLog) = Len(DroppedFrom(1))
              /\ \A e \in 1..Len(DuplicateLog) :
                    DuplicateLog[e].student_id = RawId(DroppedFrom(1)[e])
        /\ \A e \in 1..Len(validation_errors) :
              validation_errors[e].field /= "student_id"
        /\ (\A j \in 1..Len(input.columns) :
                input.columns[j] \in {"Student ID", "First Name"}) =>
              validation_errors = <<>>

\* a batch of three rows with one identifier: two rows dropped, two events
C21_Witness ==
    /\ Returned /\ HasColumn(input, "Student ID")
    /\ Len(input.rows) = 3
    /\ RawId(1) = RawId(2) /\ RawId(2) = RawId(3)
    /\ Len(DuplicateLog) = 2
    /\ report.duplicates_removed = 2

\* the entry a validator call appended to validation_errors
LastError == validation_errors[Len(validation_errors)]

\* C22: every ValidationError a validator records carries the field name
\* and the raw value exactly as the validator received it (not lowercased,
\* trimmed or parsed), together with a reason.
C22_ErrorCarriesRawValue ==
    (call.fn /= "" /\ ErrorsAppended >= 1) =>
        /\ ErrorsAppended = 1
        /\ LastError.field = call.fn
        /\ LastError.value = call.arg
        /\ LastError.error /= ""

\* C24: every row the sheet extractor returns has exactly as many values as
\* there are headers: a shorter row is padded on the right with empty
\* strings, a longer row is cut, the order of the rows is kept, and an empty
\* sheet yields an empty batch without error.
C24_RowsFitHeaders ==
    /\ sheet = <<>> => extracted = EmptyFrame
    /\ sheet /= <<>> =>
          /\ extracted.columns = sheet[1]
          /\ Len(extracted.rows) = Len(sheet) - 1
          /\ \A i \in 1..Len(extracted.rows) :
                /\ extracted.rows[i].idx = i - 1
                /\ Len(extracted.rows[i].cells) = Len(sheet[1])
                /\ \A j \in 1..Len(sheet[1]) :
                      extracted.rows[i].cells[j] =
                          IF j <= Len(sheet[i + 1]) THEN PyStr(sheet[i + 1][j])
                          ELSE PyStr("")

\* a sheet of one header with an empty row and a row of two values
C24_Witness ==
    /\ Len(sheet) = 3 /\ Len(sheet[1]) = 1
    /\ Len(sheet[2]) = 0 /\ Len(sheet[3]) = 2
    /\ Len(extracted.rows) = 2
    /\ extracted.rows[1].cells = <<PyStr("")>>
    /\ extracted.rows[2].cells = <<PyStr(sheet[3][1])>>

\* the phases of a run, in the order of the code
PhaseOrder == <<"extract", "transform", "load">>

\* how many phases the report of the run shows as completed
PhasesCompleted ==
    (IF pipeline_report.extract THEN 1 ELSE 0)
        + (IF pipeline_report.transform THEN 1 ELSE 0)
        + (IF pipeline_report.load THEN 1 ELSE 0)

\* C23: a run starts extract, then transform, then load, in that order; when
\* a phase raises no later phase is started, the report is marked 'FAILED'
\* with the error text, it is still completed with the end time and logged,
\* and the exception reaches the caller instead of a report; a report with
\* status 'SUCCESS' is returned only when all three phases completed.
C23_PhasesInOrderFailureReported ==
    /\ \E n \in 0..3 : phases = SubSeq(PhaseOrder, 1, n)
    /\ run_result \in {"", "returned", "raised"}
    /\ run_result = "" =>
          /\ pc /= "done"
          /\ pipeline_report.status = "SUCCESS"
          /\ ~pipeline_report.ended /\ logged = 0
    /\ run_result = "raised" =>
          /\ pc = "done"
          /\ pipeline_report.status = "FAILED"
          /\ pipeline_report.error /= ""
          /\ pipeline_report.ended /\ logged = 1
          /\ ~pipeline_report.load
          /\ Len(phases) = PhasesCompleted + 1
    /\ run_result = "returned" =>
          /\ pc = "done"
          /\ pipeline_report.status = "SUCCESS"
          /\ pipeline_report.ended /\ logged = 1
          /\ PhasesCompleted = 3
          /\ phases = PhaseOrder

\* a run whose transform phase raised: load was never started
C23_Witness ==
    /\ pc = "done" /\ run_result = "raised"
    /\ phases = <<"extract", "transform">>
    /\ outcome = "raised"
    /\ conn = "none" /\ ~load_call.called
    /\ pipeline_report.status = "FAILED"

\* the email of row i of the frame given to load
LoadedEmail(i) == RowGet(load_call.df, i, "email")

\* row i of the frame given to load has an email and none of its statements
\* raised
WrittenRow(i) == Truthy(LoadedEmail(i)) /\ load_call.faults.rows[i] = "none"

\* a student with the email of row i is stored when row i is reached
ExistsBefore(i) ==
    \/ \E k \in 1..Len(load_call.before.students) :
           load_call.before.students[k].student_email = LoadedEmail(i)
    \/ \E j \in 1..(i - 1) : WrittenRow(j) /\ LoadedEmail(j) = LoadedEmail(i)

\* the positions of the statements of the load with one of these operations
\* issued for row i
StatementsFor(i, ops) ==
    {k \in 1..Len(load_call.statements) :
         load_call.statements[k].row = i /\ load_call.statements[k].op \in ops}

StudentWrites == {"UPDATE student", "INSERT student"}

\* a statement of _load_departments raised
DepartmentsRaised ==
    /\ load_call.faults.departments
    /\ \E i \in 1..Len(load_call.df.rows) :
           Truthy(RowGet(load_call.df, i, "department"))

\* load gave its frame to _load_students
StudentsLoaded == load_call.called /\ ~DepartmentsRaised

\* C25: the loader upserts by email.  A record with no email is skipped with
\* no write and no counter change; for a record with an email (whose
\* statements all execute) exactly one write is issued, an UPDATE when a
\* student with that email exists and an INSERT when none does, with
\* students_updated or students_inserted one higher; so a load never
\* stores a second row for an email, and of two records of a batch sharing
\* an email the later one updates the row the earlier one inserted.
C25_UpsertByEmail ==
    StudentsLoaded =>
        /\ \A i \in 1..Len(load_call.df.rows) :
              /\ ~Truthy(LoadedEmail(i)) =>
                    StatementsFor(i, StudentWrites \cup {"SELECT student"}) = {}
              /\ WrittenRow(i) =>
                    /\ Cardinality(StatementsFor(i, StudentWrites)) = 1
                    /\ ExistsBefore(i) =>
                          StatementsFor(i, {"UPDATE student"}) /= {}
                    /\ ~ExistsBefore(i) =>
                          StatementsFor(i, {"INSERT student"}) /= {}
        /\ load_call.stats.students_updated =
               Cardinality({i \in 1..Len(load_call.df.rows) :
                                WrittenRow(i) /\ ExistsBefore(i)})
        /\ load_call.stats.students_inserted =
               Cardinality({i \in 1..Len(load_call.df.rows) :
                                WrittenRow(i) /\ ~ExistsBefore(i)})
        /\ \A k, l \in 1..Len(db.students) :
               db.students[k].student_email = db.students[l].student_email => k = l
        /\ load_call.exc = "" =>
               \A i \in 1..Len(load_call.df.rows) :
                   (/\ WrittenRow(i)
                    /\ \A j \in (i + 1)..Len(load_call.df.rows) :
                           ~(WrittenRow(j) /\ LoadedEmail(j) = LoadedEmail(i))) =>
                       \E k \in 1..Len(db.students) :
                           /\ db.students[k].student_email = LoadedEmail(i)
                           /\ db.students[k].first_name
                                  = RowGet(load_call.df, i, "first_name")

\* two records of one batch share an email no student had before: the first
\* is inserted, the second updates that row
C25_Witness ==
    /\ load_call.called /\ load_call.exc = ""
    /\ load_call.before = EmptyDb
    /\ Len(load_call.df.rows) = 2
    /\ LoadedEmail(1) = LoadedEmail(2)
    /\ WrittenRow(1) /\ WrittenRow(2)
    /\ StatementsFor(1, {"INSERT student"}) /= {}
    /\ StatementsFor(2, {"UPDATE student"}) /= {}
    /\ Len(db.students) = 1
    /\ db.students[1].first_name = RowGet(load_call.df, 2, "first_name")

\* how many statements of the load have this operation
Issued(op) ==
    Cardinality({k \in 1..Len(load_call.statements) : load_call.statements[k].op = op})

\* the last statement of the load
LastStatement == load_call.statements[Len(load_call.statements)].op

\* a statement of row i of the frame given to load raised
RowRaised(i) ==
    \/ /\ load_call.faults.rows[i] = "select"
       /\ \/ Truthy(RowGet(load_call.df, i, "department"))
          \/ Truthy(LoadedEmail(i))
    \/ /\ load_call.faults.rows[i] = "write"
       /\ Truthy(LoadedEmail(i))

\* C26: a load ends as exactly one of committed or rolled back.  It commits
\* once, after departments and students were processed; when an exception
\* escapes it rolls back, lists the error and raises without a commit having
\* taken effect; an exception on one student row is caught, listed in the
\* errors, and prevents neither the later rows nor the commit.
C26_CommitOrRollback ==
    load_call.called =>
        /\ load_call.exc = "" =>
              /\ Issued("COMMIT") = 1 /\ Issued("ROLLBACK") = 0
              /\ LastStatement = "COMMIT"
              /\ ~DepartmentsRaised /\ ~load_call.faults.commit
        /\ load_call.exc /= "" =>
              /\ Issued("ROLLBACK") = 1
              /\ LastStatement = "ROLLBACK"
              /\ DepartmentsRaised \/ load_call.faults.commit
              /\ Issued("COMMIT") = (IF DepartmentsRaised THEN 0 ELSE 1)
              /\ db = load_call.before
              /\ load_call.stats.errors[Len(load_call.stats.errors)].row = 0
        /\ DepartmentsRaised =>
              \A i \in 1..Len(load_call.df.rows) :
                  StatementsFor(i, StudentWrites \cup {"SELECT student"}) = {}
        /\ ~DepartmentsRaised =>
              /\ Issued("COMMIT") = 1
              /\ \A i \in 1..Len(load_call.df.rows) :
                    /\ RowRaised(i) <=>
                           \E e \in 1..Len(load_call.stats.errors) :
                               load_call.stats.errors[e].row = i
                    /\ WrittenRow(i) =>
                           StatementsFor(i, StudentWrites) /= {}

\* the first of two rows raised: it is listed, the second row is written and
\* the load commits
C26_Witness ==
    /\ load_call.called /\ load_call.exc = ""
    /\ Len(load_call.df.rows) = 2
    /\ RowRaised(1) /\ WrittenRow(2)
    /\ Len(load_call.stats.errors) = 1
    /\ load_call.stats.errors[1].row = 1
    /\ StatementsFor(2, StudentWrites) /= {}
    /\ LastStatement = "COMMIT"

\* C27: every run that opened a database connection closes it before run
\* exits, whether run returns or raises because the load phase failed.
C27_ConnectionClosedAtExit ==
    (pc = "done" /\ conn /= "none") => conn = "closed"

(***************************************************************************)
(* The fields of one record validated in any order: the steps of           *)
(* _validate_and_clean, each the validator of one column applied to the    *)
(* column's own cell, taken one at a time on one transformer               *)
(***************************************************************************)
\* records as _validate_and_clean receives them (trimmed text)
OrderRecords ==
    Frames(<<"email", "department", "year_level", "gpa">>,
           {<<e, d, y, g>> : e \in S({"INVALID", "a@x.co"}), d \in S({"CS", "Physics"}),
                             y \in S({"5", "1", "inf"}), g \in S({"4.5", "0"})},
           1)
        \ {[columns |-> <<"email", "department", "year_level", "gpa">>, rows |-> <<>>]}

\* mutant of CallOn: a transformer that holds an error reports no further one
CallOn_quiet_after_error(errors, col, v) ==
    IF errors = <<>> THEN Validate(col, v)
    ELSE [Validate(col, v) EXCEPT !.errs = <<>>]

\* self._clean_xxx(v) on a transformer whose validation_errors is errors
CallOn(errors, col, v) == Validate(col, v)

\* the frame with the cell of its one row under col replaced by v
WithCell(df, col, v) ==
    [df EXCEPT !.rows[1].cells[ColumnAt(df, col)] = v]

\* a record is taken up for validation
StartRecord(df) ==
    /\ outcome = "fresh"
    /\ call = NoCall
    /\ input' = df
    /\ output' = df
    /\ pending' = {df.columns[j] : j \in 1..Len(df.columns)}
    /\ outcome' = "validating"
    /\ UNCHANGED <<validation_errors, transformation_log, report, earlier, call,
                   extract_vars, run_vars>>

\* df[col] = df[col].apply(validator) for one column not yet cleaned; an
\* exception ends the validation
ValidateField(col) ==
    /\ outcome = "validating"
    /\ col \in pending
    /\ \E r \in {CallOn(validation_errors, col, Cell(output, 1, col))} :
           /\ validation_errors' = validation_errors \o r.errs
           /\ transformation_log' = transformation_log \o r.log
           /\ IF r.exc /= ""
              THEN /\ outcome' = "raised"
                   /\ UNCHANGED <<output, pending>>
              ELSE /\ output' = WithCell(output, col, r.val)
                   /\ pending' = pending \ {col}
                   /\ outcome' = IF pending = {col} THEN "validated" ELSE "validating"
    /\ UNCHANGED <<input, report, earlier, call, extract_vars, run_vars>>

NextOrders ==
    \/ Construct
    \/ \E df \in OrderRecords : StartRecord(df)
    \/ \E col \in ValidatorNames : ValidateField(col)

SpecOrders == Init /\ [][NextOrders]_vars

\* C28: every field validator is idempotent on its own output: applied to a
\* value it returned that is not None, it returns the same value and
\* appends no ValidationError; this includes the numbers 0.0 of gpa and
\* 1..4 of year_level.
C28_IdempotentOnOutput ==
    call.again =>
        /\ call.exc = ""
        /\ call.val = call.arg
        /\ ErrorsAppended = 0

\* the number of entries of validation_errors for the field
ErrorsOfField(f) ==
    Cardinality({e \in 1..Len(validation_errors) : validation_errors[e].field = f})

\* the fields whose validator reports
ReportingFields == {"email", "year_level", "date_of_birth", "gpa"}

\* the values, as the validators receive them in a run, that are present and
\* invalid: no email, a year outside 1..4, no date of the five formats, a
\* GPA outside 0..4 (computed with Python).  'None' is the text the
\* trimming step makes of an unset cell; to the validator it is a present
\* text.
InvalidValues ==
    [email |-> S({"invalid", "none"}),
     year_level |-> S({"5", "0", "-3"}),
     date_of_birth |-> S({"02/30/2003", "invalid", "None"}),
     gpa |-> S({"4.001", "4.5", "-1", "-0.001", "inf", "NaN"})]

\* C29: in a transform run each validator call appends at most one
\* ValidationError, only for email, year_level, date_of_birth and gpa and
\* only for a value that is present and invalid; the department, status
\* and phone validators append none; so a run adds at most four times as
\* many ValidationErrors as rows survive duplicate removal.
C29_AtMostOneErrorPerCall ==
    outcome /= "fresh" =>
        /\ \A e \in 1..Len(validation_errors) :
              /\ validation_errors[e].field \in ReportingFields
              /\ validation_errors[e].value \in InvalidValues[validation_errors[e].field]
        /\ \A f \in ReportingFields : ErrorsOfField(f) <= RowsAfterDedup
        /\ Len(validation_errors) <= 4 * RowsAfterDedup

\* a run of one record whose email, year, date of birth and GPA are all
\* invalid: four errors, one per field
C29_Witness ==
    /\ Returned /\ Len(output.rows) = 1 /\ RowsAfterDedup = 1
    /\ Len(validation_errors) = 4
    /\ \A f \in ReportingFields : ErrorsOfField(f) = 1

\* the entries of a list, as a set
Entries(list) == {list[k] : k \in 1..Len(list)}

\* what _validate_and_clean, with its own order of the columns, makes of the
\* record under validation
InCodeOrder == _validate_and_clean(input)

\* C30: what a validator returns depends on its own raw input alone, not on
\* the validator calls made before it, on the lists of errors and events,
\* or on the order of the fields: validating the fields of a record in any
\* order gives the same normalized record and the same set of
\* ValidationErrors.
C30_AnyOrderSameRecord ==
    /\ (outcome \in {"validating", "validated", "raised"} /\ InCodeOrder.exc = "") =>
          /\ outcome /= "raised"
          /\ \A j \in 1..Len(input.columns) :
                input.columns[j] \notin pending =>
                    output.rows[1].cells[j] = InCodeOrder.df.rows[1].cells[j]
          /\ Entries(validation_errors) \subseteq Entries(InCodeOrder.errs)
    /\ outcome = "validated" =>
          /\ InCodeOrder.exc = ""
          /\ output = InCodeOrder.df
          /\ Entries(validation_errors) = Entries(InCodeOrder.errs)
          /\ Len(validation_errors) = Len(InCodeOrder.errs)
          /\ Entries(transformation_log) = Entries(InCodeOrder.log)

\* a record validated gpa first and email last, with an error for each of
\* email, year_level and gpa
C30_Witness ==
    /\ outcome = "validated"
    /\ Len(validation_errors) = 3
    /\ validation_errors[1].field = "gpa"
    /\ validation_errors[3].field = "email"
    /\ InCodeOrder.errs[1].field = "email"
    /\ Len(transformation_log) = 1

====
